---- MODULE Spec2Model ----
(***************************************************************************)
(* Model of the mirror-accelerated checkout orchestrator of                *)
(* nscloud-checkout-action (src/src/main.ts).                              *)
(*                                                                         *)
(* A job is one runner: it owns a global git configuration and a workspace *)
(* and runs main() one run after the other.  The mirror directory lives on *)
(* a cache volume that several jobs share.  Every external command is one  *)
(* attempt of execWithGitEnv per step; its outcome is chosen by the        *)
(* environment.                                                            *)
(***************************************************************************)
EXTENDS Integers, Sequences, FiniteSets, TLC

\* ------------------------------------------------------------------ bounds
MaxAttemptsBound == 3   \* largest value of the max-attempts input that is explored
MaxRuns == 2            \* runs of main() one job performs one after the other
MaxExploredAttempts == 5   \* iterations of one retry loop that are counted exactly

\* --------------------------------------------------------------- constants
DelayUnit == 1000       \* backoff unit in ms

Jobs == {"A", "B"}      \* runners sharing the cache volume
SeqJobs == {"A"}        \* the job of the sequential specification

\* ----------------------------------------------------------- ref inputs
\* A ref or commit id is the sequence of its '/'-separated components; <<>> is ''.
EmptyRef == <<>>
NoCommit == <<>>

Upper(tok) ==
  CASE tok = "refs" -> "REFS"
    [] tok = "Refs" -> "REFS"
    [] tok = "heads" -> "HEADS"
    [] tok = "pull" -> "PULL"
    [] tok = "tags" -> "TAGS"
    [] OTHER -> tok

\* ref.toUpperCase().startsWith('REFS/')
IsQualified(ref) == Len(ref) >= 2 /\ Upper(ref[1]) = "REFS"

\* upperRef.startsWith('REFS/<NS>/')
HasNamespace(ref, ns) == Len(ref) >= 3 /\ Upper(ref[1]) = "REFS" /\ Upper(ref[2]) = ns

\* ref.substring('refs/heads/'.length): the components after the first two
Tail2(ref) == SubSeq(ref, 3, Len(ref))

\* Length and alphabet of the one-component strings used as inputs: the
\* tokens that stand for commit ids and look-alikes.
TokLen(tok) ==
  CASE tok \in {"c1", "sha40", "nothex40"} -> 40
    [] tok = "sha39" -> 39
    [] tok = "sha41" -> 41
    [] tok = "abc1234" -> 7
    [] OTHER -> 4

TokHex(tok) == tok \in {"c1", "sha40", "sha39", "sha41", "abc1234"}

\* variant: the pattern is not anchored
MatchesShaUnanchored(ref) == Len(ref) = 1 /\ TokHex(ref[1]) /\ TokLen(ref[1]) >= 40

\* result.ref.match(/^[0-9a-fA-F]{40}$/)
MatchesSha(ref) == Len(ref) = 1 /\ TokHex(ref[1]) /\ TokLen(ref[1]) = 40

\* result.ref.startsWith('refs/')
StartsWithRefs(ref) == Len(ref) >= 2 /\ ref[1] = "refs"

\* ------------------------------------------------------- numeric inputs
\* The text of a numeric input: nothing, a decimal integer, or a word that
\* is no number.
EmptyText == [kind |-> "empty", val |-> 0]

NumText(n) == [kind |-> "num", val |-> n]

WordText == [kind |-> "word", val |-> 0]

\* the text 'Infinity'
InfinityText == [kind |-> "infinity", val |-> 0]

\* The not-a-number value. It stands outside the integers the inputs use;
\* every comparison with it is false.
NaN == 0 - 1000000

\* The number Infinity: larger than every integer the model counts to.
Infinity == 1000000

\* Number(text): 0 for the empty string, NaN for what is no number
Number(text) ==
  CASE text.kind = "empty" -> 0
    [] text.kind = "num" -> text.val
    [] text.kind = "infinity" -> Infinity
    [] OTHER -> NaN

\* the truth value of a number: 0 and NaN are false
Truthy(x) == x # NaN /\ x # 0

\* a > b
JsGt(a, b) == a # NaN /\ b # NaN /\ a > b

\* a <= b
JsLe(a, b) == a # NaN /\ b # NaN /\ a <= b

\* Math.max(a, b)
JsMax(a, b) == IF a = NaN \/ b = NaN THEN NaN ELSE IF a > b THEN a ELSE b

DefaultMaxAttempts == 3

\* variant: the bound is not clamped
ParseMaxAttemptsNoClamp(text) ==
  IF Truthy(Number(text)) THEN Number(text) ELSE DefaultMaxAttempts

\* Math.max(1, Number(core.getInput('max-attempts')) || 3)
ParseMaxAttempts(text) ==
  JsMax(1, IF Truthy(Number(text)) THEN Number(text) ELSE DefaultMaxAttempts)

\* variant: the event context is not consulted
ParseInputConfigNoContext(raw) ==
  IF raw.ref # <<>> /\ MatchesSha(raw.ref)
  THEN [ref |-> <<>>, commit |-> raw.ref, fetchDepth |-> Number(raw.fetchDepth)]
  ELSE [ref |-> raw.ref, commit |-> raw.commit, fetchDepth |-> Number(raw.fetchDepth)]

\* parseInputConfig, the part that sets ref, commit and fetchDepth
ParseInputConfig(raw) ==
  IF raw.ref = <<>>
  THEN IF raw.isWorkflowRepository
       THEN [ref |-> IF raw.ctxSha # <<>> /\ raw.ctxRef # <<>> /\ ~StartsWithRefs(raw.ctxRef)
                     THEN <<"refs", "heads">> \o raw.ctxRef
                     ELSE raw.ctxRef,
             commit |-> raw.ctxSha, fetchDepth |-> Number(raw.fetchDepth)]
       ELSE [ref |-> raw.ref, commit |-> raw.commit, fetchDepth |-> Number(raw.fetchDepth)]
  ELSE IF MatchesSha(raw.ref)
  THEN [ref |-> <<>>, commit |-> raw.ref, fetchDepth |-> Number(raw.fetchDepth)]
  ELSE [ref |-> raw.ref, commit |-> raw.commit, fetchDepth |-> Number(raw.fetchDepth)]

MakeRaw(ref, commit, wf, ctxRef, ctxSha, depth) ==
  [ref |-> ref, commit |-> commit, isWorkflowRepository |-> wf, ctxRef |-> ctxRef,
   ctxSha |-> ctxSha, fetchDepth |-> NumText(depth), maxAttempts |-> NumText(1),
   persistCredentials |-> "false", mirrorRefspec |-> <<>>]

\* text.toUpperCase(), for the texts of the boolean inputs
UpperText(text) ==
  CASE text \in {"true", "True", "TRUE"} -> "TRUE"
    [] text \in {"false", "False", "FALSE"} -> "FALSE"
    [] text = "yes" -> "YES"
    [] OTHER -> text

\* variant: everything but 'false' turns the option on
ParsePersistCredentialsUnlessFalse(text) == UpperText(text) # "FALSE"

\* (core.getInput('persist-credentials') || '').toUpperCase() === 'TRUE'
ParsePersistCredentials(text) == UpperText(text) = "TRUE"

\* the request `raw` with the persist-credentials input set to `text`
WithPersistCredentials(raw, text) == [raw EXCEPT !.persistCredentials = text]

\* the request `raw` with the max-attempts input set to `text`
WithMaxAttempts(raw, text) == [raw EXCEPT !.maxAttempts = text]

\* the request `raw` with the fetch-depth input set to `text`
WithFetchDepth(raw, text) == [raw EXCEPT !.fetchDepth = text]

\* A line of the mirror-refspec input: a refspec, or nothing, with or
\* without white space around it.
BlankText == [kind |-> "map", src |-> <<>>, dst |-> <<>>]

Line(padded, text) == [padded |-> padded, text |-> text]

\* s.trim()
Trim(line) == line.text

\* mirrorRefspecInput.split('\n').map(s => s.trim()).filter(s => s.length > 0)
ParseMirrorRefspec(lines) ==
  LET NonEmpty(text) == text # BlankText
  IN SelectSeq([i \in 1..Len(lines) |-> Trim(lines[i])], NonEmpty)

\* the request `raw` with the mirror-refspec input set to `lines`
WithMirrorRefspec(raw, lines) == [raw EXCEPT !.mirrorRefspec = lines]

NoRaw == MakeRaw(<<>>, <<>>, FALSE, <<>>, <<>>, 1)

\* the inputs of the runs of the sequential specification: another
\* repository without ref, a branch by its short name, the workflow's own event
SeqRawInputs ==
  { WithPersistCredentials(WithMaxAttempts(raw, NumText(n)), persist) :
      raw \in { MakeRaw(<<>>, <<>>, FALSE, <<"refs", "heads", "main">>, <<"c1">>, 1),
                MakeRaw(<<"main">>, <<>>, FALSE, <<"refs", "heads", "main">>, <<"c1">>, 0),
                MakeRaw(<<>>, <<>>, TRUE, <<"refs", "heads", "main">>, <<"c1">>, 1) },
      n \in 1..MaxAttemptsBound,
      persist \in {"true", "false"} }

\* (ref, commit, fetch-depth) as parseInputConfig leaves them
RefInputs ==
  { [ref |-> EmptyRef, commit |-> NoCommit, fetchDepth |-> 1],
    [ref |-> <<"main">>, commit |-> NoCommit, fetchDepth |-> 0],
    [ref |-> <<"refs", "heads", "main">>, commit |-> <<"c1">>, fetchDepth |-> 1] }

\* what 'git symbolic-ref --quiet HEAD' prints for the mirror on success
DefaultBranchOutputs == { <<"refs", "heads", "main">>, <<"refs", "heads", "trunk">> }

\* what 'git rev-parse --verify --symbolic-full-name' can print on success:
\* a full ref name, or nothing when the name is a commit id
ResolverOutputs == { EmptyRef, <<"refs", "heads", "main">>, <<"refs", "tags", "v1">> }

\* ------------------------------------------------------------------ config
\* the runner's environment: both variables name existing paths ("ok"), or
\* one of them is unset ("no...") or names a path that does not exist
EnvCases == {"ok", "noMirror", "missingMirror", "noWorkspace", "missingWorkspace"}

\* process.env.NSC_GIT_MIRROR and fs.existsSync of it
MirrorPath(env) ==
  [set |-> env # "noMirror", exists |-> env \notin {"noMirror", "missingMirror"}]

\* process.env.GITHUB_WORKSPACE and fs.existsSync of it
WorkspacePath(env) ==
  [set |-> env # "noWorkspace", exists |-> env \notin {"noWorkspace", "missingWorkspace"}]

\* variant: only the mirror path is checked
EnvUsableMirrorOnly(env) == MirrorPath(env).set /\ MirrorPath(env).exists

\* neither '!gitMirrorPath || !fs.existsSync(gitMirrorPath)' nor
\* '!workspacePath || !fs.existsSync(workspacePath)'
EnvUsable(env) ==
  /\ MirrorPath(env).set /\ MirrorPath(env).exists
  /\ WorkspacePath(env).set /\ WorkspacePath(env).exists
SparseModes == {"none", "cone", "nocone"}

\* the boolean and mode inputs: every value of every flag, alone and together
FlagProfiles ==
  { [downloadGitLFS |-> FALSE, dissociateMainRepo |-> FALSE, sparse |-> "none",
     submodules |-> FALSE, persistCredentials |-> FALSE, debug |-> FALSE],
    [downloadGitLFS |-> TRUE, dissociateMainRepo |-> TRUE, sparse |-> "cone",
     submodules |-> TRUE, persistCredentials |-> TRUE, debug |-> TRUE],
    [downloadGitLFS |-> FALSE, dissociateMainRepo |-> TRUE, sparse |-> "nocone",
     submodules |-> FALSE, persistCredentials |-> TRUE, debug |-> FALSE],
    [downloadGitLFS |-> TRUE, dissociateMainRepo |-> FALSE, sparse |-> "nocone",
     submodules |-> TRUE, persistCredentials |-> FALSE, debug |-> FALSE] }

\* Names of owners and repositories are sequences of hyphen-free words
\* ('a-b' is <<"a", "b">>); a uid is its decimal text, "undefined" when
\* process.getuid is missing.
DefaultRunnerUid == "1001"

\* `${config.owner}-${config.repo}`, or that under `uid-${uid}/` for another user
MirrorSubdir(cfg) ==
  LET repo == cfg.owner \o cfg.repo
  IN IF cfg.uid \in {"undefined", DefaultRunnerUid}
     THEN << repo >>
     ELSE << <<"uid", cfg.uid>>, repo >>

\* path.join(mirrorRoot, mirrorSubdir(config))
MirrorDirPath(cfg) == << <<"v2">> >> \o MirrorSubdir(cfg)

\* IInputConfig, the fields the orchestration reads, plus the environment
MakeConfig(env, input, maxAttempts, f) ==
  [ env |-> env, input |-> input, maxAttempts |-> maxAttempts,
    downloadGitLFS |-> f.downloadGitLFS, dissociateMainRepo |-> f.dissociateMainRepo,
    sparse |-> f.sparse, submodules |-> f.submodules,
    persistCredentials |-> f.persistCredentials, debug |-> f.debug, mirrorRefspec |-> <<>>,
    owner |-> <<"acme">>, repo |-> <<"app">>, uid |-> DefaultRunnerUid ]

\* the requests explored: every input with a usable environment, and one
\* request for each unusable environment (nothing else is read before it fails)
Configs ==
  { MakeConfig("ok", in, n, f) : in \in RefInputs, n \in 1..MaxAttemptsBound, f \in FlagProfiles }
  \cup { MakeConfig(e, CHOOSE in \in RefInputs : in.ref = EmptyRef, 1,
                    CHOOSE f \in FlagProfiles : ~f.persistCredentials /\ ~f.submodules)
         : e \in EnvCases \ {"ok"} }

NoConfig ==
  [ env |-> "ok", input |-> [ref |-> EmptyRef, commit |-> NoCommit, fetchDepth |-> 1],
    maxAttempts |-> 1, downloadGitLFS |-> FALSE, dissociateMainRepo |-> FALSE,
    sparse |-> "none", submodules |-> FALSE, persistCredentials |-> FALSE,
    debug |-> FALSE, mirrorRefspec |-> <<>>,
    owner |-> <<"acme">>, repo |-> <<"app">>, uid |-> DefaultRunnerUid ]

VARIABLES
  rawInput,    \* per job: the action inputs and event context of the current run
  pc,          \* per job: the step main() is at ("idle", a step, or "returned")
  config,      \* per job: the parsed IInputConfig of the current run
  runs,        \* per job: number of runs of main() started
  call,        \* per job: state of the execWithGitEnv loop of the current step
  lastCall,    \* per job: summary of the last finished external call
  stepLog,     \* per job: steps of the current run that finished successfully
  outcome,     \* per job: "none" | "running" | "ok" | "failed" | "silent"
  setFailed,   \* per job: core.setFailed calls of the current run
  warned,      \* per job: "Failed to prepare mirror root" warnings of the run
  plan,        \* per job: getCheckoutInfo's ref/commit locals and its result
  sawMirror,   \* per job: mirror existence at run start and at the check
  globalCfg,   \* per job: entries in the global git config
  localCfg,    \* per job: entries in the checkout directory's local config
  subCfg,      \* per job: entries in a submodule's local config
  repo,        \* per job: state of the working repository
  mirrorRoot,  \* shared: the version root <mirror>/v2
  mirrorDir,   \* shared: the mirror directory of the repository
  mirrorRefs,  \* shared: the refs the mirror holds
  remoteRefs   \* the refs of the repository on the remote

runVars == <<rawInput, pc, config, runs, call, lastCall, stepLog, outcome, setFailed, warned, plan, sawMirror>>
cfgVars == <<globalCfg, localCfg, subCfg, repo>>
fsVars == <<mirrorRoot, mirrorDir, mirrorRefs, remoteRefs>>
vars == <<rawInput, pc, config, runs, call, lastCall, stepLog, outcome, setFailed, warned, plan,
          sawMirror, globalCfg, localCfg, subCfg, repo, mirrorRoot, mirrorDir, mirrorRefs,
          remoteRefs>>


\* ------------------------------------------------------- control flow
\* variant: checkout is placed before the working-checkout fetch
StepOrderCheckoutBeforeFetch ==
  << "checkEnv",
     "gUnsetHeader", "gAddHeader", "gAddInsteadOf",
     "prepareMirrorRoot", "checkMirrorDir", "mirrorClone", "mirrorFetch", "mirrorLfs",
     "showRef",
     "getCheckoutInfo", "resolveRef",
     "gitInit", "safeDir", "remoteAdd",
     "checkout",
     "fetch", "lfsFetch",
     "repack", "writeAlternates",
     "sparseSet", "sparseConfig", "sparsePath",
     "submodules",
     "lUnsetHeader", "lAddHeader", "lAddInsteadOf", "subAddHeader", "subAddInsteadOf",
     "cUnsetHeader", "cUnsetInsteadOf" >>

\* The call sites of main() in program order.  "mirrorClone" is entered only
\* from the existence check; every other step follows its predecessor.
StepOrder ==
  << "checkEnv",
     "gUnsetHeader", "gAddHeader", "gAddInsteadOf",
     "prepareMirrorRoot", "checkMirrorDir", "mirrorClone", "mirrorFetch", "mirrorLfs",
     "showRef",
     "getCheckoutInfo", "resolveRef",
     "gitInit", "safeDir", "remoteAdd",
     "fetch", "lfsFetch",
     "repack", "writeAlternates",
     "sparseSet", "sparseConfig", "sparsePath",
     "checkout",
     "submodules",
     "lUnsetHeader", "lAddHeader", "lAddInsteadOf", "subAddHeader", "subAddInsteadOf",
     "cUnsetHeader", "cUnsetInsteadOf" >>

Steps == { StepOrder[i] : i \in 1..Len(StepOrder) }

\* variant: the alternates file is written whether or not dissociate is set
AppliesAlternatesAlways(step, cfg) ==
  CASE step = "mirrorClone" -> FALSE
    [] step \in {"mirrorLfs", "lfsFetch"} -> cfg.downloadGitLFS
    [] step = "showRef" -> cfg.debug
    [] step = "repack" -> cfg.dissociateMainRepo
    [] step = "sparseSet" -> cfg.sparse = "cone"
    [] step \in {"sparseConfig", "sparsePath"} -> cfg.sparse = "nocone"
    [] step = "submodules" -> cfg.submodules
    [] step \in {"lUnsetHeader", "lAddHeader", "lAddInsteadOf", "subAddHeader", "subAddInsteadOf"}
         -> cfg.persistCredentials
    [] OTHER -> TRUE

\* the conditions under which main() reaches a call site
Applies(step, cfg) ==
  CASE step = "mirrorClone" -> FALSE
    [] step \in {"mirrorLfs", "lfsFetch"} -> cfg.downloadGitLFS
    [] step = "showRef" -> cfg.debug
    [] step = "repack" -> cfg.dissociateMainRepo
    [] step = "writeAlternates" -> ~cfg.dissociateMainRepo
    [] step = "sparseSet" -> cfg.sparse = "cone"
    [] step \in {"sparseConfig", "sparsePath"} -> cfg.sparse = "nocone"
    [] step = "submodules" -> cfg.submodules
    [] step \in {"lUnsetHeader", "lAddHeader", "lAddInsteadOf", "subAddHeader", "subAddInsteadOf"}
         -> cfg.persistCredentials
    [] OTHER -> TRUE

IndexOf(step) == CHOOSE i \in 1..Len(StepOrder) : StepOrder[i] = step

\* the step main() goes to when `step` has finished without throwing
Succ(step, cfg) ==
  LET later == { k \in (IndexOf(step) + 1)..Len(StepOrder) : Applies(StepOrder[k], cfg) }
  IN IF later = {} THEN "returned"
     ELSE StepOrder[CHOOSE k \in later : \A m \in later : k <= m]

\* variant: every call site passes the request's max-attempts
AttemptsForRetryAll(step, cfg) == cfg.maxAttempts

\* the attempt bound each call site passes to execWithGitEnv
AttemptsFor(step, cfg) ==
  IF step \in {"mirrorClone", "mirrorFetch", "mirrorLfs", "fetch", "lfsFetch", "submodules"}
  THEN cfg.maxAttempts
  ELSE 1

\* variant: every call site passes ignoreReturnCode: true
IgnoresReturnCodeEverywhere(step) == TRUE

\* the call sites that pass ignoreReturnCode: true
IgnoresReturnCode(step) ==
  step \in {"gUnsetHeader", "lUnsetHeader", "cUnsetHeader", "cUnsetInsteadOf"}

\* ------------------------------------------------------- execWithGitEnv
\* what one exec.exec can do: exit 0, exit non-zero, or fail to run at all
ExecOutcomes == {"ok", "nonzero", "error"}

\* exec.exec rejects on a non-zero exit unless ignoreReturnCode is set
ExecThrows(out, ignoreReturnCode) ==
  out = "error" \/ (out = "nonzero" /\ ~ignoreReturnCode)

\* variant: the loop runs one iteration too many
LoopCondOffByOne(attempt, maxAttempts) == attempt <= maxAttempts + 1

\* for (let attempt = 1; attempt <= maxAttempts; attempt++)
LoopCond(attempt, maxAttempts) == attempt <= maxAttempts

\* variant: a warning and a delay follow every failed attempt, the last included
ShouldRetryEveryAttempt(attempt, maxAttempts) == attempt <= maxAttempts

\* if (attempt < maxAttempts)
ShouldRetry(attempt, maxAttempts) == attempt < maxAttempts

\* variant: the delay does not grow with the attempt
DelayConstant(attempt) == DelayUnit

\* const delay = attempt * 1000
Delay(attempt) == attempt * DelayUnit

\* attempt++. The counter is exact up to MaxExploredAttempts + 1; above
\* that only its parity is kept, so that a loop with no finite bound goes
\* round between two values that are both below the bound.
NextAttempt(attempt) ==
  IF attempt > MaxExploredAttempts THEN MaxExploredAttempts ELSE attempt + 1

\* the tallies of one call, exact up to MaxExploredAttempts
Counted(n) == IF n >= MaxExploredAttempts THEN n ELSE n + 1

FreshCall ==
  [attempt |-> 1, execs |-> 0, fails |-> 0, warnings |-> <<>>, waited |-> <<>>, lastError |-> 0]

NoCall ==
  [step |-> "none", cmd |-> "none", via |-> "none", maxAttempts |-> 0, execs |-> 0, fails |-> 0, ok |-> TRUE,
   exit |-> "ok", warnings |-> <<>>, waited |-> <<>>, lastError |-> 0]

Summary(step, cmd, via, n, c, ok, out) ==
  [step |-> step, cmd |-> cmd, via |-> via, maxAttempts |-> n, execs |-> c.execs, fails |-> c.fails, ok |-> ok,
   exit |-> out, warnings |-> c.warnings, waited |-> c.waited, lastError |-> c.lastError]

\* variant: the catch block swallows the error
CatchUnreported(j, isError) ==
  /\ pc' = [pc EXCEPT ![j] = "returned"]
  /\ outcome' = [outcome EXCEPT ![j] = "silent"]
  /\ setFailed' = setFailed
  /\ call' = [call EXCEPT ![j] = FreshCall]

\* the catch block of main(): report the failure when the error is an Error
Catch(j, isError) ==
  /\ pc' = [pc EXCEPT ![j] = "returned"]
  /\ outcome' = [outcome EXCEPT ![j] = IF isError THEN "failed" ELSE "silent"]
  /\ setFailed' = [setFailed EXCEPT ![j] = IF isError THEN @ + 1 ELSE @]
  /\ call' = [call EXCEPT ![j] = FreshCall]

\* a step finished without throwing: go on with the next one
Proceed(j, step, next) ==
  /\ pc' = [pc EXCEPT ![j] = next]
  /\ stepLog' = [stepLog EXCEPT ![j] = Append(@, step)]
  /\ outcome' = [outcome EXCEPT ![j] = IF next = "returned" THEN "ok" ELSE @]
  /\ call' = [call EXCEPT ![j] = FreshCall]
  /\ UNCHANGED setFailed

\* One iteration of the loop of execWithGitEnv: run the command once; on a
\* throw, warn and wait when attempts remain, and throw the last error when
\* the loop is over.
ExecWithGitEnv(j, step, maxAttempts, ignoreReturnCode, next) ==
  /\ \E out \in ExecOutcomes :
       LET c == call[j] IN
       IF ~LoopCond(c.attempt, maxAttempts)
       THEN \* the loop body never ran: throw lastError, which is undefined
            /\ out = "ok"
            /\ lastCall' = [lastCall EXCEPT ![j] = Summary(step, step, "execWithGitEnv", maxAttempts, c, FALSE, "error")]
            /\ Catch(j, c.lastError # 0)
            /\ UNCHANGED stepLog
       ELSE
         LET threw == ExecThrows(out, ignoreReturnCode)
             retry == threw /\ ShouldRetry(c.attempt, maxAttempts)
             c2 == [attempt |-> NextAttempt(c.attempt),
                    execs |-> Counted(c.execs),
                    fails |-> IF threw THEN Counted(c.fails) ELSE c.fails,
                    warnings |-> IF retry /\ Len(c.warnings) < MaxExploredAttempts
                                 THEN Append(c.warnings, Delay(c.attempt)) ELSE c.warnings,
                    waited |-> IF retry /\ Len(c.waited) < MaxExploredAttempts
                               THEN Append(c.waited, Delay(c.attempt)) ELSE c.waited,
                    lastError |-> IF threw THEN c.attempt ELSE c.lastError]
         IN IF ~threw
            THEN /\ lastCall' = [lastCall EXCEPT ![j] = Summary(step, step, "execWithGitEnv", maxAttempts, c2, TRUE, out)]
                 /\ Proceed(j, step, next)
            ELSE IF LoopCond(c2.attempt, maxAttempts)
            THEN /\ call' = [call EXCEPT ![j] = c2]
                 /\ UNCHANGED <<pc, lastCall, stepLog, outcome, setFailed>>
            ELSE /\ lastCall' = [lastCall EXCEPT ![j] = Summary(step, step, "execWithGitEnv", maxAttempts, c2, FALSE, out)]
                 /\ Catch(j, TRUE)
                 /\ UNCHANGED stepLog

\* the record of a command that ran once, outside the loop of execWithGitEnv
OneShot(out) ==
  [FreshCall EXCEPT !.attempt = 2, !.execs = 1,
                    !.fails = IF out = "ok" THEN 0 ELSE 1,
                    !.lastError = IF out = "ok" THEN 0 ELSE 1]

\* variant: the lookups are handed to execWithGitEnv with an attempt bound of 1
DirectExecRouted(j, step, cmd, next) ==
  \E out \in ExecOutcomes :
    /\ lastCall' = [lastCall EXCEPT ![j] =
                      Summary(step, cmd, "execWithGitEnv", 1, OneShot(out), out = "ok", out)]
    /\ IF out = "ok"
       THEN Proceed(j, step, next)
       ELSE Catch(j, TRUE) /\ UNCHANGED stepLog

\* getExecOutputWithGitEnv: exec.getExecOutput called directly, one
\* execution, no loop
DirectExec(j, step, cmd, next) ==
  \E out \in ExecOutcomes :
    LET c2 == OneShot(out)
    IN /\ lastCall' = [lastCall EXCEPT ![j] =
                         Summary(step, cmd, "getExecOutput", 1, c2, out = "ok", out)]
       /\ IF out = "ok"
          THEN Proceed(j, step, next)
          ELSE Catch(j, TRUE) /\ UNCHANGED stepLog

\* the step of `step` finished without throwing in this transition
Finished(j) == stepLog'[j] # stepLog[j]


\* ------------------------------------------------------- getCheckoutInfo
WildcardRefspecs ==
  << [kind |-> "map", src |-> <<"refs", "heads", "*">>, dst |-> <<"refs", "remotes", "origin", "*">>],
     [kind |-> "map", src |-> <<"refs", "tags", "*">>, dst |-> <<"refs", "tags", "*">>] >>

\* `+${commit || ref}:${pointerRef}`
TargetRefspec(ref, commit, pointerRef) ==
  [kind |-> "map", src |-> IF commit # <<>> THEN commit ELSE ref, dst |-> pointerRef]

BareRefspec(commit) == [kind |-> "bare", src |-> commit, dst |-> <<>>]

\* variant: a branch is checked out detached
BranchInfoNoStartBranch(ref) ==
  [originalRef |-> ref, pointerRef |-> <<"refs", "remotes", "origin">> \o Tail2(ref),
   startBranch |-> <<>>]

\* refs/heads/<branch>: track the branch under refs/remotes/origin/
BranchInfo(ref) ==
  [originalRef |-> ref, pointerRef |-> <<"refs", "remotes", "origin">> \o Tail2(ref),
   startBranch |-> Tail2(ref)]

\* variant: only the pull request number is kept
PullInfoNumberOnly(ref) ==
  [originalRef |-> ref, pointerRef |-> <<"refs", "remotes", "pull", ref[3]>>,
   startBranch |-> <<>>]

\* refs/pull/<rest>: point at refs/remotes/pull/<rest>
PullInfo(ref) ==
  [originalRef |-> ref, pointerRef |-> <<"refs", "remotes", "pull">> \o Tail2(ref),
   startBranch |-> <<>>]

\* variant: every ref is tracked under refs/remotes/origin/
OtherRefInfoUnderOrigin(ref) ==
  [originalRef |-> ref, pointerRef |-> <<"refs", "remotes", "origin">> \o Tail2(ref),
   startBranch |-> <<>>]

\* any other ref (a tag, a note): point at the ref itself
OtherRefInfo(ref) == [originalRef |-> ref, pointerRef |-> ref, startBranch |-> <<>>]

\* variant: originalRef is the (empty) ref
CommitInfoKeepsRef(ref, commit) ==
  [originalRef |-> ref, pointerRef |-> commit, startBranch |-> <<>>]

\* no ref: point at the commit
CommitInfo(ref, commit) == [originalRef |-> commit, pointerRef |-> commit, startBranch |-> <<>>]

\* the classification of the resolved ref
Classify(ref, commit) ==
  IF HasNamespace(ref, "HEADS") THEN BranchInfo(ref)
  ELSE IF HasNamespace(ref, "PULL") THEN PullInfo(ref)
  ELSE IF ref # <<>> THEN OtherRefInfo(ref)
  ELSE CommitInfo(ref, commit)

\* variant: a shallow fetch also names the wildcards
ShallowFetchRefsWithWildcards(ref, commit, pointerRef) ==
  IF ref # <<>> THEN Append(WildcardRefspecs, TargetRefspec(ref, commit, pointerRef))
  ELSE << BareRefspec(commit) >>

\* depth > 0: fetch the one target only
ShallowFetchRefs(ref, commit, pointerRef) ==
  IF ref # <<>> THEN << TargetRefspec(ref, commit, pointerRef) >> ELSE << BareRefspec(commit) >>

\* variant: tags are not known to be covered by the wildcards
NeedsTargetRefspecIgnoresTags(ref) == ref # <<>> /\ ~HasNamespace(ref, "HEADS")

\* ref && !REFS/HEADS/ && !REFS/TAGS/: the wildcards do not cover the ref
NeedsTargetRefspec(ref) ==
  ref # <<>> /\ ~HasNamespace(ref, "HEADS") /\ ~HasNamespace(ref, "TAGS")

\* variant: a commit-only plan fetches the wildcards alone
FullFetchRefsNoBareCommit(ref, commit, pointerRef) ==
  IF NeedsTargetRefspec(ref)
  THEN Append(WildcardRefspecs, TargetRefspec(ref, commit, pointerRef))
  ELSE WildcardRefspecs

\* depth 0: all branches and tags, plus what they do not cover
FullFetchRefs(ref, commit, pointerRef) ==
  IF NeedsTargetRefspec(ref)
  THEN Append(WildcardRefspecs, TargetRefspec(ref, commit, pointerRef))
  ELSE IF ref = <<>> /\ commit # <<>>
  THEN Append(WildcardRefspecs, BareRefspec(commit))
  ELSE WildcardRefspecs

\* the fetch refspecs of the plan
FetchRefs(ref, commit, depth, pointerRef) ==
  IF JsGt(depth, 0)
  THEN ShallowFetchRefs(ref, commit, pointerRef)
  ELSE FullFetchRefs(ref, commit, pointerRef)

\* the ICheckoutInfo built from the resolved ref
CheckoutInfo(ref, commit, depth) ==
  LET c == Classify(ref, commit)
  IN [originalRef |-> c.originalRef, pointerRef |-> c.pointerRef, startBranch |-> c.startBranch,
      fetchRefs |-> FetchRefs(ref, commit, depth, c.pointerRef)]

NoInfo == [originalRef |-> <<>>, pointerRef |-> <<>>, startBranch |-> <<>>, fetchRefs |-> <<>>]
\* the arguments of the working-checkout fetch that depend on the request
NoFetchArgs == [depthFlags |-> <<>>, depth |-> 0, refspecs |-> <<>>]

\* config.fetchDepth <= 0 ? [] : ['--depth', config.fetchDepth.toString(), '--no-tags']
FetchDepthFlags(depth) == IF JsLe(depth, 0) THEN <<>> ELSE <<"--depth", "--no-tags">>

\* [...fetchDepthFlags, ..., 'origin', ...checkoutInfo.fetchRefs]
FetchArgs(depth, info) ==
  [depthFlags |-> FetchDepthFlags(depth), depth |-> depth, refspecs |-> info.fetchRefs]

NoPlan ==
  [ref |-> <<>>, commit |-> <<>>, info |-> NoInfo, planned |-> FALSE, queries |-> <<>>,
   checkoutArgs |-> <<>>, fetchArgs |-> NoFetchArgs]

\* const startBranchFlags = checkoutInfo.startBranch ? ['-B', checkoutInfo.startBranch] : []
StartBranchFlags(info) ==
  IF info.startBranch # <<>> THEN << <<"-B">>, info.startBranch >> ELSE <<>>

\* the arguments of the checkout command after the repository flags
CheckoutArgs(info) ==
  << <<"checkout">>, <<"--progress">>, <<"--force">> >> \o StartBranchFlags(info)
     \o << info.pointerRef >>

\* ------------------------------------------------------------ git config
NoEntries == [header |-> 0, insteadOf |-> 0]
\* what a run has seen of the mirror and asked of it
NotSeen ==
  [atStart |-> FALSE, atCheck |-> FALSE, dir |-> <<>>,
   fetchArgs |-> [flags |-> <<>>, refspecs |-> <<>>]]

\* the refs of the remote repository at the start
AllRemoteRefs ==
  { <<"refs", "heads", "main">>, <<"refs", "heads", "dev">>, <<"refs", "tags", "v1">> }

FreshRepo == [initialized |-> FALSE, remote |-> FALSE, alternates |-> FALSE, repacked |-> FALSE]

\* ------------------------------------------------------------------- Init
Init ==
  /\ rawInput = [j \in Jobs |-> NoRaw]
  /\ pc = [j \in Jobs |-> "idle"]
  /\ config = [j \in Jobs |-> NoConfig]
  /\ runs = [j \in Jobs |-> 0]
  /\ call = [j \in Jobs |-> FreshCall]
  /\ lastCall = [j \in Jobs |-> NoCall]
  /\ stepLog = [j \in Jobs |-> <<>>]
  /\ outcome = [j \in Jobs |-> "none"]
  /\ setFailed = [j \in Jobs |-> 0]
  /\ warned = [j \in Jobs |-> 0]
  /\ plan = [j \in Jobs |-> NoPlan]
  /\ sawMirror = [j \in Jobs |-> NotSeen]
  /\ globalCfg = [j \in Jobs |-> NoEntries]
  /\ localCfg = [j \in Jobs |-> NoEntries]
  /\ subCfg = [j \in Jobs |-> NoEntries]
  /\ repo = [j \in Jobs |-> FreshRepo]
  /\ mirrorRoot \in {"absent", "writable", "readonly"}
  /\ mirrorDir = "absent"
  /\ mirrorRefs = {}
  /\ remoteRefs = AllRemoteRefs

\* ------------------------------------------------------------------ main
\* main() is invoked: parseInputConfig reads the inputs of this run
StartRunWith(j, raws, cfgs) ==
  /\ pc[j] \in {"idle", "returned"}
  /\ runs[j] < MaxRuns
  /\ \E raw \in raws, cfg \in cfgs :
       /\ cfg.input = ParseInputConfig(raw)
       /\ cfg.maxAttempts = ParseMaxAttempts(raw.maxAttempts)
       /\ cfg.persistCredentials = ParsePersistCredentials(raw.persistCredentials)
       /\ cfg.mirrorRefspec = ParseMirrorRefspec(raw.mirrorRefspec)
       /\ rawInput' = [rawInput EXCEPT ![j] = raw]
       /\ config' = [config EXCEPT ![j] = cfg]
  /\ runs' = [runs EXCEPT ![j] = @ + 1]
  /\ pc' = [pc EXCEPT ![j] = "checkEnv"]
  /\ call' = [call EXCEPT ![j] = FreshCall]
  /\ lastCall' = [lastCall EXCEPT ![j] = NoCall]
  /\ stepLog' = [stepLog EXCEPT ![j] = <<>>]
  /\ outcome' = [outcome EXCEPT ![j] = "running"]
  /\ setFailed' = [setFailed EXCEPT ![j] = 0]
  /\ warned' = [warned EXCEPT ![j] = 0]
  /\ plan' = [plan EXCEPT ![j] = NoPlan]
  /\ sawMirror' = [sawMirror EXCEPT ![j] = [NotSeen EXCEPT !.atStart = mirrorDir # "absent"]]
  /\ UNCHANGED <<cfgVars, fsVars>>

StartRun(j) == StartRunWith(j, SeqRawInputs, Configs)

\* the checks of NSC_GIT_MIRROR and GITHUB_WORKSPACE
CheckEnv(j) ==
  /\ pc[j] = "checkEnv"
  /\ IF ~EnvUsable(config[j].env)
     THEN Catch(j, TRUE) /\ UNCHANGED stepLog
     ELSE Proceed(j, "checkEnv", Succ("checkEnv", config[j]))
  /\ UNCHANGED <<rawInput, config, runs, lastCall, warned, plan, sawMirror, cfgVars, fsVars>>

\* a call site that runs a command through execWithGitEnv
ExecStep(j, step) ==
  /\ pc[j] = step
  /\ ExecWithGitEnv(j, step, AttemptsFor(step, config[j]), IgnoresReturnCode(step),
                    Succ(step, config[j]))
  /\ UNCHANGED <<rawInput, config, runs, warned>>

\* configGitAuth(token, {global: true})
GlobalUnsetHeader(j) ==
  /\ ExecStep(j, "gUnsetHeader")
  /\ globalCfg' = IF Finished(j) /\ lastCall'[j].exit = "ok"
                  THEN [globalCfg EXCEPT ![j].header = 0] ELSE globalCfg
  /\ UNCHANGED <<plan, sawMirror, localCfg, subCfg, repo, fsVars>>

\* variant: the header is added with the local selector
GlobalAddHeaderLocalScope(j) ==
  /\ ExecStep(j, "gAddHeader")
  /\ localCfg' = IF Finished(j) THEN [localCfg EXCEPT ![j].header = @ + 1] ELSE localCfg
  /\ UNCHANGED <<plan, sawMirror, globalCfg, subCfg, repo, fsVars>>

GlobalAddHeader(j) ==
  /\ ExecStep(j, "gAddHeader")
  /\ globalCfg' = IF Finished(j) THEN [globalCfg EXCEPT ![j].header = @ + 1] ELSE globalCfg
  /\ UNCHANGED <<plan, sawMirror, localCfg, subCfg, repo, fsVars>>

GlobalAddInsteadOf(j) ==
  /\ ExecStep(j, "gAddInsteadOf")
  /\ globalCfg' = IF Finished(j) THEN [globalCfg EXCEPT ![j].insteadOf = @ + 1] ELSE globalCfg
  /\ UNCHANGED <<plan, sawMirror, localCfg, subCfg, repo, fsVars>>

\* variant: a failure to prepare the version root is thrown to main()
\* ensureMirrorRootWritable: a root that exists and is not writable is
\* repaired by exec.exec('sudo', ['chmod', '777', mirrorRoot]), called directly
SudoChmod(j, failed) ==
  IF mirrorRoot = "readonly"
  THEN \E out \in ExecOutcomes :
         /\ failed = (out # "ok")
         /\ lastCall' = [lastCall EXCEPT ![j] =
                           Summary("prepareMirrorRoot", "sudoChmod", "exec", 1, OneShot(out),
                                   out = "ok", out)]
  ELSE UNCHANGED lastCall

PrepareMirrorRootThrows(j) ==
  /\ pc[j] = "prepareMirrorRoot"
  /\ \E failed \in BOOLEAN :
       /\ mirrorRoot = "writable" => ~failed
       /\ mirrorRoot' = (IF failed THEN mirrorRoot ELSE "writable")
       /\ IF failed
          THEN Catch(j, TRUE) /\ UNCHANGED stepLog
          ELSE Proceed(j, "prepareMirrorRoot", Succ("prepareMirrorRoot", config[j]))
       /\ SudoChmod(j, failed)
  /\ UNCHANGED <<rawInput, config, runs, warned, plan, sawMirror, cfgVars, mirrorDir,
                 mirrorRefs, remoteRefs>>

\* the version root: create it world-writable, or repair its writability;
\* whatever fails is a warning
PrepareMirrorRoot(j) ==
  /\ pc[j] = "prepareMirrorRoot"
  /\ \E failed \in BOOLEAN :
       /\ IF mirrorRoot = "absent"
          THEN \* mkdirSync or chmodSync threw, or another job created the root first
               mirrorRoot' \in (IF failed THEN {"absent", "readonly", "writable"} ELSE {"writable"})
          ELSE IF mirrorRoot = "writable"
          THEN ~failed /\ mirrorRoot' = mirrorRoot
          ELSE mirrorRoot' = (IF failed THEN "readonly" ELSE "writable")
       /\ warned' = [warned EXCEPT ![j] = IF failed THEN @ + 1 ELSE @]
       /\ SudoChmod(j, failed)
  /\ Proceed(j, "prepareMirrorRoot", Succ("prepareMirrorRoot", config[j]))
  /\ UNCHANGED <<rawInput, config, runs, plan, sawMirror, cfgVars, mirrorDir, mirrorRefs,
                 remoteRefs>>

\* variant: the clone does not depend on the existence check
NeedsCloneAlways(exists) == TRUE

\* if (!fs.existsSync(mirrorDir))
NeedsClone(exists) == ~exists

\* the existence check of the mirror directory and its creation
CheckMirrorDir(j) ==
  /\ pc[j] = "checkMirrorDir"
  /\ LET exists == mirrorDir # "absent" IN
     /\ sawMirror' = [sawMirror EXCEPT ![j].atCheck = exists, ![j].dir = MirrorDirPath(config[j])]
     /\ IF NeedsClone(exists)
        THEN \E mkdirOk \in BOOLEAN :
               /\ mirrorRoot = "writable" => mkdirOk
               /\ mirrorRoot = "readonly" => ~mkdirOk
               /\ IF mkdirOk
                  THEN /\ mirrorDir' = (IF exists THEN mirrorDir ELSE "empty")
                       /\ mirrorRoot' = (IF mirrorRoot = "absent" THEN "writable" ELSE mirrorRoot)
                       /\ UNCHANGED <<mirrorRefs, remoteRefs>>
                       /\ Proceed(j, "checkMirrorDir", "mirrorClone")
                  ELSE /\ Catch(j, TRUE)
                       /\ UNCHANGED <<stepLog, fsVars>>
        ELSE /\ Proceed(j, "checkMirrorDir", Succ("mirrorClone", config[j]))
             /\ UNCHANGED fsVars
  /\ UNCHANGED <<rawInput, config, runs, lastCall, warned, plan, cfgVars>>

\* git clone --mirror brings every ref of the remote into the mirror
MirrorClone(j) ==
  /\ ExecStep(j, "mirrorClone")
  /\ mirrorDir' = IF Finished(j) THEN "cloned" ELSE mirrorDir
  /\ mirrorRefs' = IF Finished(j) THEN remoteRefs ELSE mirrorRefs
  /\ UNCHANGED <<plan, sawMirror, cfgVars, mirrorRoot, remoteRefs>>

\* a pattern ending in '*' matches the refs under its prefix
MatchesPattern(pat, ref) ==
  IF pat # <<>> /\ pat[Len(pat)] = "*"
  THEN Len(ref) >= Len(pat) /\ SubSeq(ref, 1, Len(pat) - 1) = SubSeq(pat, 1, Len(pat) - 1)
  ELSE ref = pat

\* the name the refspec `rs` gives in the mirror to the remote ref `ref`
MapRef(rs, ref) ==
  IF rs.dst # <<>> /\ rs.dst[Len(rs.dst)] = "*"
  THEN SubSeq(rs.dst, 1, Len(rs.dst) - 1) \o SubSeq(ref, Len(rs.src), Len(ref))
  ELSE rs.dst

\* remote.origin.fetch of a mirror clone
MirrorDefaultRefspec == [kind |-> "map", src |-> <<"refs", "*">>, dst |-> <<"refs", "*">>]

\* the refspec --prune-tags adds
TagRefspec == [kind |-> "map", src |-> <<"refs", "tags", "*">>, dst |-> <<"refs", "tags", "*">>]

\* rs.includes('refs/tags/')
IncludesTags(rs) ==
  LET Has(s) == \E i \in 1..(Len(s) - 2) : s[i] = "refs" /\ s[i + 1] = "tags"
  IN Has(rs.src) \/ Has(rs.dst)

\* variant: tags are pruned whatever the override
NeedsPruneTagsAlways(mirrorRefspec) == TRUE

\* config.mirrorRefspec.length === 0 || config.mirrorRefspec.some(rs => rs.includes('refs/tags/'))
NeedsPruneTags(mirrorRefspec) ==
  Len(mirrorRefspec) = 0 \/ \E i \in 1..Len(mirrorRefspec) : IncludesTags(mirrorRefspec[i])

\* the arguments of the mirror fetch
MirrorFetchArgs(mirrorRefspec) ==
  [flags |-> <<"-c", "protocol.version=2", "--git-dir", "mirrorDir", "fetch",
               "--no-recurse-submodules", "--prune">>
             \o (IF NeedsPruneTags(mirrorRefspec) THEN <<"--prune-tags">> ELSE <<>>)
             \o <<"origin">>,
   refspecs |-> mirrorRefspec]

\* the refspecs git fetch works with: those of the command line, or the
\* configured one when there are none, and the tag refspec under --prune-tags
EffectiveRefspecs(args) ==
  (IF args.refspecs = <<>> THEN <<MirrorDefaultRefspec>> ELSE args.refspecs)
  \o (IF \E i \in 1..Len(args.flags) : args.flags[i] = "--prune-tags"
      THEN <<TagRefspec>> ELSE <<>>)

\* the refs a fetch with the refspecs `rss` writes
Fetched(rss, remote) ==
  { MapRef(rss[i], r) : <<i, r>> \in { x \in (1..Len(rss)) \X remote :
                                        MatchesPattern(rss[x[1]].src, x[2]) } }

\* the refs --prune deletes: under the destination of a refspec, gone from the remote
Pruned(rss, local, remote) ==
  { l \in local : /\ \E i \in 1..Len(rss) : MatchesPattern(rss[i].dst, l)
                  /\ l \notin Fetched(rss, remote) }

\* the mirror after a fetch with `args`
AfterFetch(local, remote, args) ==
  LET rss == EffectiveRefspecs(args)
      pruning == \E i \in 1..Len(args.flags) : args.flags[i] = "--prune"
  IN (local \ (IF pruning THEN Pruned(rss, local, remote) ELSE {})) \cup Fetched(rss, remote)

\* variant: a mirror whose fetch failed is removed
MirrorFetchDropsOnFailure(j) ==
  /\ ExecStep(j, "mirrorFetch")
  /\ mirrorDir' = IF pc'[j] = "returned" THEN "absent" ELSE mirrorDir
  /\ sawMirror' = [sawMirror EXCEPT ![j].fetchArgs = MirrorFetchArgs(config[j].mirrorRefspec)]
  /\ mirrorRefs' = IF Finished(j)
                   THEN AfterFetch(mirrorRefs, remoteRefs, sawMirror'[j].fetchArgs)
                   ELSE mirrorRefs
  /\ UNCHANGED <<plan, cfgVars, mirrorRoot, remoteRefs>>

\* git fetch into the mirror
MirrorFetch(j) ==
  /\ ExecStep(j, "mirrorFetch")
  /\ sawMirror' = [sawMirror EXCEPT ![j].fetchArgs = MirrorFetchArgs(config[j].mirrorRefspec)]
  /\ mirrorRefs' = IF Finished(j)
                   THEN AfterFetch(mirrorRefs, remoteRefs, sawMirror'[j].fetchArgs)
                   ELSE mirrorRefs
  /\ UNCHANGED <<plan, cfgVars, mirrorRoot, mirrorDir, remoteRefs>>

\* git lfs fetch into the mirror
MirrorLfs(j) ==
  /\ ExecStep(j, "mirrorLfs")
  /\ UNCHANGED <<plan, sawMirror, cfgVars, fsVars>>

\* git show-ref, in debug mode
ShowRef(j) ==
  /\ ExecStep(j, "showRef")
  /\ UNCHANGED <<plan, sawMirror, cfgVars, fsVars>>


\* variant: the default branch is never looked up
NeedsDefaultBranchNever(ref, commit) == FALSE

\* if (!ref && !commit): nothing specified => find the default branch
NeedsDefaultBranch(ref, commit) == ref = <<>> /\ commit = <<>>

\* getCheckoutInfo, first part: with neither ref nor commit, ask the mirror
\* for its default branch
GetCheckoutInfo(j) ==
  /\ pc[j] = "getCheckoutInfo"
  /\ LET in == config[j].input IN
     IF NeedsDefaultBranch(in.ref, in.commit)
     THEN /\ DirectExec(j, "getCheckoutInfo", "symbolicRef", "resolveRef")
          /\ \E output \in DefaultBranchOutputs :
               plan' = IF Finished(j)
                       THEN [plan EXCEPT ![j] = [NoPlan EXCEPT !.ref = output, !.commit = in.commit,
                                                               !.queries = <<"symbolicRef">>]]
                       ELSE [plan EXCEPT ![j] = [NoPlan EXCEPT !.queries = <<"symbolicRef">>]]
     ELSE /\ Proceed(j, "getCheckoutInfo", "resolveRef")
          /\ plan' = [plan EXCEPT ![j] = [NoPlan EXCEPT !.ref = in.ref, !.commit = in.commit]]
          /\ UNCHANGED lastCall
  /\ UNCHANGED <<rawInput, config, runs, warned, sawMirror, cfgVars, fsVars>>

\* getCheckoutInfo, second part: qualify an unqualified ref against the
\* mirror, classify the ref and build the fetch refspecs
ResolveRef(j) ==
  /\ pc[j] = "resolveRef"
  /\ LET p == plan[j]
         depth == config[j].input.fetchDepth
     IN IF p.ref # <<>> /\ ~IsQualified(p.ref)
        THEN /\ DirectExec(j, "resolveRef", "revParse", Succ("resolveRef", config[j]))
             /\ \E output \in ResolverOutputs :
                  plan' = IF Finished(j)
                          THEN [plan EXCEPT ![j] = [ref |-> output, commit |-> p.commit,
                                                    info |-> CheckoutInfo(output, p.commit, depth),
                                                    planned |-> TRUE, checkoutArgs |-> <<>>,
                                                    fetchArgs |-> NoFetchArgs,
                                                    queries |-> Append(p.queries, "revParse")]]
                          ELSE [plan EXCEPT ![j].queries = Append(@, "revParse")]
        ELSE /\ Proceed(j, "resolveRef", Succ("resolveRef", config[j]))
             /\ plan' = [plan EXCEPT ![j] = [p EXCEPT !.info = CheckoutInfo(p.ref, p.commit, depth),
                                                      !.planned = TRUE]]
             /\ UNCHANGED lastCall
  /\ UNCHANGED <<rawInput, config, runs, warned, sawMirror, cfgVars, fsVars>>

\* git init <repoDir>
GitInit(j) ==
  /\ ExecStep(j, "gitInit")
  /\ repo' = IF Finished(j) THEN [repo EXCEPT ![j].initialized = TRUE] ELSE repo
  /\ UNCHANGED <<plan, sawMirror, globalCfg, localCfg, subCfg, fsVars>>

\* git config --global --add safe.directory <repoDir>
SafeDir(j) ==
  /\ ExecStep(j, "safeDir")
  /\ UNCHANGED <<plan, sawMirror, cfgVars, fsVars>>

\* git remote add origin <remoteURL>; git refuses a remote that already exists
RemoteAdd(j) ==
  /\ ExecStep(j, "remoteAdd")
  /\ repo[j].remote => ~Finished(j)
  /\ repo' = IF Finished(j) THEN [repo EXCEPT ![j].remote = TRUE] ELSE repo
  /\ UNCHANGED <<plan, sawMirror, globalCfg, localCfg, subCfg, fsVars>>

\* git fetch of the planned refspecs into the working repository
\* git fetch into the working checkout; git rejects a --depth that is no
\* positive number
Fetch(j) ==
  /\ ExecStep(j, "fetch")
  /\ plan' = [plan EXCEPT ![j].fetchArgs = FetchArgs(config[j].input.fetchDepth, plan[j].info)]
  /\ (plan'[j].fetchArgs.depthFlags # <<>> /\ plan'[j].fetchArgs.depth = NaN) => ~Finished(j)
  /\ UNCHANGED <<sawMirror, cfgVars, fsVars>>

\* git lfs fetch into the working repository
LfsFetch(j) ==
  /\ ExecStep(j, "lfsFetch")
  /\ UNCHANGED <<plan, sawMirror, cfgVars, fsVars>>

\* git repack -a -d, when dissociate is requested
Repack(j) ==
  /\ ExecStep(j, "repack")
  /\ repo' = IF Finished(j) THEN [repo EXCEPT ![j].repacked = TRUE] ELSE repo
  /\ UNCHANGED <<plan, sawMirror, globalCfg, localCfg, subCfg, fsVars>>

\* fs.writeFileSync of .git/objects/info/alternates, otherwise
WriteAlternates(j) ==
  /\ pc[j] = "writeAlternates"
  /\ Proceed(j, "writeAlternates", Succ("writeAlternates", config[j]))
  /\ repo' = [repo EXCEPT ![j].alternates = TRUE]
  /\ UNCHANGED <<rawInput, config, runs, lastCall, warned, plan, sawMirror, globalCfg, localCfg, subCfg, fsVars>>

\* git sparse-checkout set <patterns>, cone mode
SparseSet(j) ==
  /\ ExecStep(j, "sparseSet")
  /\ UNCHANGED <<plan, sawMirror, cfgVars, fsVars>>

\* git config core.sparseCheckout true, non-cone mode
SparseConfig(j) ==
  /\ ExecStep(j, "sparseConfig")
  /\ UNCHANGED <<plan, sawMirror, cfgVars, fsVars>>

\* git rev-parse --git-path info/sparse-checkout, then append the patterns
SparsePath(j) ==
  /\ pc[j] = "sparsePath"
  /\ DirectExec(j, "sparsePath", "sparsePath", Succ("sparsePath", config[j]))
  /\ UNCHANGED <<rawInput, config, runs, warned, plan, sawMirror, cfgVars, fsVars>>

\* git checkout --progress --force [-B startBranch] pointerRef
Checkout(j) ==
  /\ ExecStep(j, "checkout")
  /\ plan' = [plan EXCEPT ![j].checkoutArgs = CheckoutArgs(plan[j].info)]
  /\ UNCHANGED <<sawMirror, cfgVars, fsVars>>

\* gitSubmoduleUpdate: nsc git-checkout update-submodules
Submodules(j) ==
  /\ ExecStep(j, "submodules")
  /\ UNCHANGED <<plan, sawMirror, cfgVars, fsVars>>

\* configGitAuth(token, {repoDir}), when persist-credentials is set
LocalUnsetHeader(j) ==
  /\ ExecStep(j, "lUnsetHeader")
  /\ localCfg' = IF Finished(j) /\ lastCall'[j].exit = "ok"
                 THEN [localCfg EXCEPT ![j].header = 0] ELSE localCfg
  /\ UNCHANGED <<plan, sawMirror, globalCfg, subCfg, repo, fsVars>>

LocalAddHeader(j) ==
  /\ ExecStep(j, "lAddHeader")
  /\ localCfg' = IF Finished(j) THEN [localCfg EXCEPT ![j].header = @ + 1] ELSE localCfg
  /\ UNCHANGED <<plan, sawMirror, globalCfg, subCfg, repo, fsVars>>

LocalAddInsteadOf(j) ==
  /\ ExecStep(j, "lAddInsteadOf")
  /\ localCfg' = IF Finished(j) THEN [localCfg EXCEPT ![j].insteadOf = @ + 1] ELSE localCfg
  /\ UNCHANGED <<plan, sawMirror, globalCfg, subCfg, repo, fsVars>>

\* configGitAuthForSubmodules(token, repoDir)
SubAddHeader(j) ==
  /\ ExecStep(j, "subAddHeader")
  /\ subCfg' = IF Finished(j) THEN [subCfg EXCEPT ![j].header = @ + 1] ELSE subCfg
  /\ UNCHANGED <<plan, sawMirror, globalCfg, localCfg, repo, fsVars>>

SubAddInsteadOf(j) ==
  /\ ExecStep(j, "subAddInsteadOf")
  /\ subCfg' = IF Finished(j) THEN [subCfg EXCEPT ![j].insteadOf = @ + 1] ELSE subCfg
  /\ UNCHANGED <<plan, sawMirror, globalCfg, localCfg, repo, fsVars>>

\* variant: the cleanup removes the header of the checkout directory
CleanupUnsetHeaderLocalScope(j) ==
  /\ ExecStep(j, "cUnsetHeader")
  /\ localCfg' = IF Finished(j) /\ lastCall'[j].exit = "ok"
                 THEN [localCfg EXCEPT ![j].header = 0] ELSE localCfg
  /\ UNCHANGED <<plan, sawMirror, globalCfg, subCfg, repo, fsVars>>

\* cleanupGitAuth({global: true})
CleanupUnsetHeader(j) ==
  /\ ExecStep(j, "cUnsetHeader")
  /\ globalCfg' = IF Finished(j) /\ lastCall'[j].exit = "ok"
                  THEN [globalCfg EXCEPT ![j].header = 0] ELSE globalCfg
  /\ UNCHANGED <<plan, sawMirror, localCfg, subCfg, repo, fsVars>>

CleanupUnsetInsteadOf(j) ==
  /\ ExecStep(j, "cUnsetInsteadOf")
  /\ globalCfg' = IF Finished(j) /\ lastCall'[j].exit = "ok"
                  THEN [globalCfg EXCEPT ![j].insteadOf = 0] ELSE globalCfg
  /\ UNCHANGED <<plan, sawMirror, localCfg, subCfg, repo, fsVars>>

\* ---------------------------------------------------------- specifications
Step(j) ==
  \/ StartRun(j)
  \/ CheckEnv(j)
  \/ GlobalUnsetHeader(j)
  \/ GlobalAddHeader(j)
  \/ GlobalAddInsteadOf(j)
  \/ PrepareMirrorRoot(j)
  \/ CheckMirrorDir(j)
  \/ MirrorClone(j)
  \/ MirrorFetch(j)
  \/ MirrorLfs(j)
  \/ ShowRef(j)
  \/ GetCheckoutInfo(j)
  \/ ResolveRef(j)
  \/ GitInit(j)
  \/ SafeDir(j)
  \/ RemoteAdd(j)
  \/ Fetch(j)
  \/ LfsFetch(j)
  \/ Repack(j)
  \/ WriteAlternates(j)
  \/ SparseSet(j)
  \/ SparseConfig(j)
  \/ SparsePath(j)
  \/ Checkout(j)
  \/ Submodules(j)
  \/ LocalUnsetHeader(j)
  \/ LocalAddHeader(j)
  \/ LocalAddInsteadOf(j)
  \/ SubAddHeader(j)
  \/ SubAddInsteadOf(j)
  \/ CleanupUnsetHeader(j)
  \/ CleanupUnsetInsteadOf(j)

\* one job, run after run
Next == \E j \in SeqJobs : Step(j)

Spec == Init /\ [][Next]_vars

TypeOK ==
  /\ \A j \in Jobs : pc[j] \in Steps \cup {"idle", "returned", "jobEnded"}
  /\ \A j \in Jobs : outcome[j] \in {"none", "running", "ok", "failed", "silent"}
  /\ mirrorDir \in {"absent", "empty", "cloned"}
  /\ mirrorRefs \subseteq AllRemoteRefs
  /\ remoteRefs \subseteq AllRemoteRefs
  /\ mirrorRoot \in {"absent", "writable", "readonly"}


\* Two jobs that race for one mirror path.  Both have passed the environment
\* checks, installed their global credential and prepared the version root;
\* the mirror directory does not exist yet.
RaceConfigs ==
  { cfg \in Configs : cfg.env = "ok" /\ ~cfg.downloadGitLFS /\ ~cfg.debug /\ ~cfg.dissociateMainRepo }

RacePrefix == <<"checkEnv", "gUnsetHeader", "gAddHeader", "gAddInsteadOf", "prepareMirrorRoot">>

InitRace ==
  /\ pc = [j \in Jobs |-> "checkMirrorDir"]
  /\ config \in [Jobs -> RaceConfigs]
  /\ rawInput = [j \in Jobs |->
       CHOOSE raw \in SeqRawInputs :
         /\ ParseInputConfig(raw) = config[j].input
         /\ ParseMaxAttempts(raw.maxAttempts) = config[j].maxAttempts
         /\ ParsePersistCredentials(raw.persistCredentials) = config[j].persistCredentials]
  /\ runs = [j \in Jobs |-> 1]
  /\ call = [j \in Jobs |-> FreshCall]
  /\ lastCall = [j \in Jobs |->
       [NoCall EXCEPT !.step = "gAddInsteadOf", !.cmd = "gAddInsteadOf",
                      !.via = "execWithGitEnv", !.maxAttempts = 1,
                      !.execs = 1]]
  /\ stepLog = [j \in Jobs |-> RacePrefix]
  /\ outcome = [j \in Jobs |-> "running"]
  /\ setFailed = [j \in Jobs |-> 0]
  /\ warned = [j \in Jobs |-> 0]
  /\ plan = [j \in Jobs |-> NoPlan]
  /\ sawMirror = [j \in Jobs |-> NotSeen]
  /\ globalCfg = [j \in Jobs |-> [header |-> 1, insteadOf |-> 1]]
  /\ localCfg = [j \in Jobs |-> NoEntries]
  /\ subCfg = [j \in Jobs |-> NoEntries]
  /\ repo = [j \in Jobs |-> FreshRepo]
  /\ mirrorRoot = "writable"
  /\ mirrorDir = "absent"
  /\ mirrorRefs = {}
  /\ remoteRefs = AllRemoteRefs

RaceStep(j) ==
  \/ CheckMirrorDir(j)
  \/ MirrorClone(j)
  \/ MirrorFetch(j)
  \/ GetCheckoutInfo(j)
  \/ ResolveRef(j)

NextRace == \E j \in Jobs : RaceStep(j)

SpecRace == InitRace /\ [][NextRace]_vars

\* One job resolving and planning over a wide range of ref, commit and depth
\* inputs, with every optional step switched off and a single attempt.
PlanRefs ==
  { <<>>, <<"main">>, <<"abc1234">>, <<"sha40">>, <<"sha39">>, <<"sha41">>, <<"nothex40">>,
    <<"refs", "heads", "main">>, <<"refs", "heads", "feature", "x">>,
    <<"refs", "pull", "7", "merge">>, <<"refs", "pull", "7", "head">>,
    <<"refs", "tags", "v1">>, <<"refs", "notes", "commits">> }

PlanDepths == {0, 2}

PlanRawInputs ==
  { MakeRaw(r, c, FALSE, <<"refs", "heads", "main">>, <<"c1">>, d) :
      r \in PlanRefs, c \in {<<>>, <<"c1">>}, d \in PlanDepths }
  \cup { MakeRaw(<<>>, c, TRUE, cr, <<"c1">>, d) :
           c \in {<<>>, <<"c1">>}, d \in PlanDepths,
           cr \in {<<"refs", "heads", "main">>, <<"main">>, <<"refs", "pull", "7", "merge">>} }

PlanConfigs ==
  { MakeConfig("ok", ParseInputConfig(raw), 1,
               CHOOSE f \in FlagProfiles : ~f.persistCredentials /\ ~f.submodules)
    : raw \in PlanRawInputs }

InitPlan == Init /\ mirrorRoot = "writable"

StartPlanRun(j) == StartRunWith(j, PlanRawInputs, PlanConfigs)

PlanStep(j) ==
  \/ StartPlanRun(j)
  \/ CheckEnv(j)
  \/ GlobalUnsetHeader(j)
  \/ GlobalAddHeader(j)
  \/ GlobalAddInsteadOf(j)
  \/ PrepareMirrorRoot(j)
  \/ CheckMirrorDir(j)
  \/ MirrorClone(j)
  \/ MirrorFetch(j)
  \/ GetCheckoutInfo(j)
  \/ ResolveRef(j)
  \/ GitInit(j)
  \/ SafeDir(j)
  \/ RemoteAdd(j)
  \/ Fetch(j)
  \/ WriteAlternates(j)
  \/ Checkout(j)
  \/ CleanupUnsetHeader(j)
  \/ CleanupUnsetInsteadOf(j)

NextPlan == \E j \in SeqJobs : PlanStep(j)

SpecPlan == InitPlan /\ [][NextPlan]_vars

\* One job from its first run to the end of the job, when the runner
\* executes the post entry points of the actions the job used.
\* action.yml: 'runs: using: node20, main: dist/index.js' declares no post
\* entry point, so the set of commands the action runs after the job is empty.
PostSteps == {}

\* the end of the job: the runner runs what the action declared as post
PostJob(j) ==
  /\ pc[j] = "returned"
  /\ pc' = [pc EXCEPT ![j] = "jobEnded"]
  /\ localCfg' = IF "cleanupLocal" \in PostSteps
                 THEN [localCfg EXCEPT ![j] = NoEntries] ELSE localCfg
  /\ UNCHANGED <<rawInput, config, runs, call, lastCall, stepLog, outcome, setFailed, warned, plan,
                 sawMirror, globalCfg, subCfg, repo, fsVars>>

JobRawInputs ==
  { WithPersistCredentials(MakeRaw(<<>>, <<>>, TRUE, <<"refs", "heads", "main">>, <<"c1">>, 1),
                           persist) : persist \in {"true", "false"} }

JobConfigs ==
  { MakeConfig("ok", ParseInputConfig(raw), 1, f) :
      raw \in JobRawInputs,
      f \in { g \in FlagProfiles : ~g.submodules /\ ~g.downloadGitLFS /\ ~g.debug } }

StartJobRun(j) == StartRunWith(j, JobRawInputs, JobConfigs)

JobStep(j) ==
  \/ StartJobRun(j)
  \/ CheckEnv(j)
  \/ GlobalUnsetHeader(j)
  \/ GlobalAddHeader(j)
  \/ GlobalAddInsteadOf(j)
  \/ PrepareMirrorRoot(j)
  \/ CheckMirrorDir(j)
  \/ MirrorClone(j)
  \/ MirrorFetch(j)
  \/ GetCheckoutInfo(j)
  \/ ResolveRef(j)
  \/ GitInit(j)
  \/ SafeDir(j)
  \/ RemoteAdd(j)
  \/ Fetch(j)
  \/ Repack(j)
  \/ WriteAlternates(j)
  \/ SparseConfig(j)
  \/ SparsePath(j)
  \/ Checkout(j)
  \/ LocalUnsetHeader(j)
  \/ LocalAddHeader(j)
  \/ LocalAddInsteadOf(j)
  \/ SubAddHeader(j)
  \/ SubAddInsteadOf(j)
  \/ CleanupUnsetHeader(j)
  \/ CleanupUnsetInsteadOf(j)
  \/ PostJob(j)

NextJob == \E j \in SeqJobs : JobStep(j)

\* every started step finishes and the job comes to its end
SpecJob == Init /\ [][NextJob]_vars /\ WF_vars(NextJob)

\* ------------------------------------------------ the mirror refspec input
\* Runs of one job that differ in the mirror-refspec input, against a remote
\* that loses branches and tags between and during the runs.
HeadsMain == [kind |-> "map", src |-> <<"refs", "heads", "main">>, dst |-> <<"refs", "heads", "main">>]

HeadsAll == [kind |-> "map", src |-> <<"refs", "heads", "*">>, dst |-> <<"refs", "heads", "*">>]

MirrorRefspecInputs ==
  { <<>>,
    <<Line(FALSE, HeadsMain)>>,
    <<Line(TRUE, HeadsAll), Line(FALSE, BlankText)>>,
    <<Line(TRUE, BlankText), Line(FALSE, TagRefspec), Line(TRUE, HeadsMain)>> }

MirrorRawInputs ==
  { WithMirrorRefspec(MakeRaw(<<"refs", "heads", "main">>, <<>>, FALSE, <<>>, <<>>, 1), lines) :
      lines \in MirrorRefspecInputs }

MirrorConfigs ==
  { [ MakeConfig("ok", ParseInputConfig(raw), 1,
                 CHOOSE f \in FlagProfiles : ~f.persistCredentials /\ ~f.submodules)
      EXCEPT !.mirrorRefspec = ParseMirrorRefspec(raw.mirrorRefspec) ]
    : raw \in MirrorRawInputs }

InitMirror == Init /\ mirrorRoot = "writable"

StartMirrorRun(j) == StartRunWith(j, MirrorRawInputs, MirrorConfigs)

\* a branch or a tag is deleted on the remote
RemoteDelete ==
  /\ \E r \in remoteRefs \ {<<"refs", "heads", "main">>} : remoteRefs' = remoteRefs \ {r}
  /\ UNCHANGED <<runVars, cfgVars, mirrorRoot, mirrorDir, mirrorRefs>>

MirrorStep(j) ==
  \/ StartMirrorRun(j)
  \/ CheckEnv(j)
  \/ GlobalUnsetHeader(j)
  \/ GlobalAddHeader(j)
  \/ GlobalAddInsteadOf(j)
  \/ PrepareMirrorRoot(j)
  \/ CheckMirrorDir(j)
  \/ MirrorClone(j)
  \/ MirrorFetch(j)
  \/ GetCheckoutInfo(j)
  \/ ResolveRef(j)
  \/ GitInit(j)
  \/ SafeDir(j)
  \/ RemoteAdd(j)
  \/ Fetch(j)
  \/ WriteAlternates(j)
  \/ Checkout(j)
  \/ CleanupUnsetHeader(j)
  \/ CleanupUnsetInsteadOf(j)

NextMirror == (\E j \in SeqJobs : MirrorStep(j)) \/ RemoteDelete

SpecMirror == InitMirror /\ [][NextMirror]_vars

\* ------------------------------------------------------ the numeric inputs
\* Runs of one job that differ in the text of the fetch-depth and the
\* max-attempts inputs.
NumericTexts == { EmptyText, WordText, NumText(0 - 2), NumText(0), NumText(2) }

NumericRawInputs ==
  { WithMaxAttempts(WithFetchDepth(MakeRaw(<<"refs", "heads", "main">>, <<>>, FALSE, <<>>, <<>>, 1),
                                   depth), attempts) :
      depth \in NumericTexts, attempts \in NumericTexts }

NumericConfigs ==
  { MakeConfig("ok", ParseInputConfig(raw), ParseMaxAttempts(raw.maxAttempts),
               CHOOSE f \in FlagProfiles : ~f.persistCredentials /\ ~f.submodules)
    : raw \in NumericRawInputs }

InitNumeric == Init /\ mirrorRoot = "writable"

StartNumericRun(j) == StartRunWith(j, NumericRawInputs, NumericConfigs)

NumericStep(j) ==
  \/ StartNumericRun(j)
  \/ CheckEnv(j)
  \/ GlobalUnsetHeader(j)
  \/ GlobalAddHeader(j)
  \/ GlobalAddInsteadOf(j)
  \/ PrepareMirrorRoot(j)
  \/ CheckMirrorDir(j)
  \/ MirrorClone(j)
  \/ MirrorFetch(j)
  \/ GetCheckoutInfo(j)
  \/ ResolveRef(j)
  \/ GitInit(j)
  \/ SafeDir(j)
  \/ RemoteAdd(j)
  \/ Fetch(j)
  \/ WriteAlternates(j)
  \/ Checkout(j)
  \/ CleanupUnsetHeader(j)
  \/ CleanupUnsetInsteadOf(j)

NextNumeric == \E j \in SeqJobs : NumericStep(j)

SpecNumeric == InitNumeric /\ [][NextNumeric]_vars

\* ------------------------------------------------- the mirror directories
\* Two jobs on one cache volume, for repositories and users drawn from the
\* names below; each works out the directory of its mirror.
SubdirOwners == { <<"a">>, <<"a", "b">> }

SubdirRepos == { <<"c">>, <<"b", "c">> }

SubdirUids == { "undefined", DefaultRunnerUid, "5", "6" }

SubdirConfigs ==
  { [NoConfig EXCEPT !.owner = o, !.repo = r, !.uid = u] :
      o \in SubdirOwners, r \in SubdirRepos, u \in SubdirUids }

InitSubdir ==
  /\ pc = [j \in Jobs |-> "idle"]
  /\ config \in [Jobs -> SubdirConfigs]
  /\ rawInput = [j \in Jobs |-> NoRaw]
  /\ runs = [j \in Jobs |-> 0]
  /\ call = [j \in Jobs |-> FreshCall]
  /\ lastCall = [j \in Jobs |-> NoCall]
  /\ stepLog = [j \in Jobs |-> <<>>]
  /\ outcome = [j \in Jobs |-> "none"]
  /\ setFailed = [j \in Jobs |-> 0]
  /\ warned = [j \in Jobs |-> 0]
  /\ plan = [j \in Jobs |-> NoPlan]
  /\ sawMirror = [j \in Jobs |-> NotSeen]
  /\ globalCfg = [j \in Jobs |-> NoEntries]
  /\ localCfg = [j \in Jobs |-> NoEntries]
  /\ subCfg = [j \in Jobs |-> NoEntries]
  /\ repo = [j \in Jobs |-> FreshRepo]
  /\ mirrorRoot = "writable"
  /\ mirrorDir = "absent"
  /\ mirrorRefs = {}
  /\ remoteRefs = AllRemoteRefs

\* const mirrorDir = path.join(mirrorRoot, mirrorSubdir(config))
ResolveMirrorDir(j) ==
  /\ sawMirror[j].dir = <<>>
  /\ sawMirror' = [sawMirror EXCEPT ![j].dir = MirrorDirPath(config[j])]
  /\ UNCHANGED <<rawInput, pc, config, runs, call, lastCall, stepLog, outcome, setFailed, warned,
                 plan, cfgVars, fsVars>>

NextSubdir == \E j \in Jobs : ResolveMirrorDir(j)

SpecSubdir == InitSubdir /\ [][NextSubdir]_vars

\* ------------------------------------------- the persist-credentials input
\* Runs of one job that differ in the text of the persist-credentials input
\* and in the optional steps.
PersistTexts == { "true", "True", "false", "", "yes" }

PersistRawInputs ==
  { WithPersistCredentials(MakeRaw(<<"refs", "heads", "main">>, <<"c1">>, FALSE, <<>>, <<>>, 1),
                           text) : text \in PersistTexts }

PersistConfigs ==
  { MakeConfig("ok", ParseInputConfig(raw), 1, f) : raw \in PersistRawInputs, f \in FlagProfiles }

StartPersistRun(j) == StartRunWith(j, PersistRawInputs, PersistConfigs)

PersistStep(j) ==
  \/ StartPersistRun(j)
  \/ CheckEnv(j)
  \/ GlobalUnsetHeader(j)
  \/ GlobalAddHeader(j)
  \/ GlobalAddInsteadOf(j)
  \/ PrepareMirrorRoot(j)
  \/ CheckMirrorDir(j)
  \/ MirrorClone(j)
  \/ MirrorFetch(j)
  \/ MirrorLfs(j)
  \/ ShowRef(j)
  \/ GetCheckoutInfo(j)
  \/ ResolveRef(j)
  \/ GitInit(j)
  \/ SafeDir(j)
  \/ RemoteAdd(j)
  \/ Fetch(j)
  \/ LfsFetch(j)
  \/ Repack(j)
  \/ WriteAlternates(j)
  \/ SparseSet(j)
  \/ SparseConfig(j)
  \/ SparsePath(j)
  \/ Checkout(j)
  \/ Submodules(j)
  \/ LocalUnsetHeader(j)
  \/ LocalAddHeader(j)
  \/ LocalAddInsteadOf(j)
  \/ SubAddHeader(j)
  \/ SubAddInsteadOf(j)
  \/ CleanupUnsetHeader(j)
  \/ CleanupUnsetInsteadOf(j)

NextPersist == \E j \in SeqJobs : PersistStep(j)

SpecPersist == Init /\ [][NextPersist]_vars

\* ------------------------------------------------------------ termination
\* Runs of one job under a finite and under an infinite attempt bound, with
\* every command returning: each enabled step of main() is eventually taken.
AttemptTexts == { NumText(1), NumText(2), InfinityText }

TerminationRawInputs ==
  { WithMaxAttempts(MakeRaw(<<"refs", "heads", "main">>, <<>>, FALSE, <<>>, <<>>, 1), attempts) :
      attempts \in AttemptTexts }

TerminationConfigs ==
  { MakeConfig("ok", ParseInputConfig(raw), ParseMaxAttempts(raw.maxAttempts),
               CHOOSE f \in FlagProfiles : ~f.persistCredentials /\ ~f.submodules)
    : raw \in TerminationRawInputs }

StartTerminationRun(j) == StartRunWith(j, TerminationRawInputs, TerminationConfigs)

TerminationStep(j) ==
  \/ StartTerminationRun(j)
  \/ CheckEnv(j)
  \/ GlobalUnsetHeader(j)
  \/ GlobalAddHeader(j)
  \/ GlobalAddInsteadOf(j)
  \/ PrepareMirrorRoot(j)
  \/ CheckMirrorDir(j)
  \/ MirrorClone(j)
  \/ MirrorFetch(j)
  \/ GetCheckoutInfo(j)
  \/ ResolveRef(j)
  \/ GitInit(j)
  \/ SafeDir(j)
  \/ RemoteAdd(j)
  \/ Fetch(j)
  \/ WriteAlternates(j)
  \/ Checkout(j)
  \/ CleanupUnsetHeader(j)
  \/ CleanupUnsetInsteadOf(j)

NextTermination == \E j \in SeqJobs : TerminationStep(j)

\* every command returns and main() goes on after it
SpecTermination == InitNumeric /\ [][NextTermination]_vars /\ WF_vars(NextTermination)

\* ------------------------------------------------------------ observations
\* `s` finished without throwing in the current run of j
Done(j, s) == \E i \in 1..Len(stepLog[j]) : stepLog[j][i] = s

Pos(j, s) == CHOOSE i \in 1..Len(stepLog[j]) : stepLog[j][i] = s

Times(j, s) == Cardinality({ i \in 1..Len(stepLog[j]) : stepLog[j][i] = s })

\* the current run of j has reached `s`: it is at it, finished it, or failed in it
Attempted(j, s) ==
  \/ Done(j, s)
  \/ pc[j] = s
  \/ (pc[j] = "returned" /\ lastCall[j].step = s /\ ~lastCall[j].ok)

\* a started before b, and b only after a had finished
Before(j, a, b) ==
  Attempted(j, b) => (Done(j, a) /\ (Done(j, b) => Pos(j, a) < Pos(j, b)))


\* the call sites that run through execWithGitEnv
ExecSteps ==
  Steps \ {"checkEnv", "prepareMirrorRoot", "checkMirrorDir", "getCheckoutInfo", "resolveRef",
           "writeAlternates", "sparsePath"}

\* clone, fetch, LFS fetch and the submodule helper
NetworkSteps == {"mirrorClone", "mirrorFetch", "mirrorLfs", "fetch", "lfsFetch", "submodules"}

\* the credential configuration mutations
CredentialSteps ==
  {"gUnsetHeader", "gAddHeader", "gAddInsteadOf", "lUnsetHeader", "lAddHeader", "lAddInsteadOf",
   "subAddHeader", "subAddInsteadOf", "cUnsetHeader", "cUnsetInsteadOf"}

\* init, safe.directory, remote add, repack, sparse-checkout configuration, checkout
LocalSteps ==
  {"gitInit", "safeDir", "remoteAdd", "repack", "sparseSet", "sparseConfig", "checkout"}
  \cup CredentialSteps

\* the steps that start clone, fetch, LFS fetch, ref resolution, init,
\* checkout or the submodule helper
RepositorySteps ==
  NetworkSteps \cup {"getCheckoutInfo", "resolveRef", "gitInit", "checkout"}

\* ------------------------------------------------------------------ claims

\* C1: every run of main() that installed the global credential has run the
\* global credential cleanup (cleanupGitAuth) by the time main() returns,
\* whether the run succeeded or a later step failed.
C1_GlobalCleanupBeforeReturn ==
  \A j \in Jobs :
    (pc[j] = "returned" /\ Done(j, "gAddInsteadOf")) => Attempted(j, "cUnsetHeader")

\* C2: the global credential install has completed before any clone, fetch,
\* LFS fetch, ref resolution, init, checkout or submodule-helper command is
\* started, and none of them runs while the global header is absent.
C2_GlobalInstallFirst ==
  \A j \in Jobs : \A s \in RepositorySteps :
    /\ Before(j, "gAddInsteadOf", s)
    /\ pc[j] = s => globalCfg[j].header >= 1

C2_Witness ==
  \E j \in Jobs : pc[j] = "checkout" /\ Done(j, "fetch") /\ globalCfg[j].header = 1

\* C3: in every run the mirror refresh (clone if needed, then mirror fetch)
\* comes before ref resolution, before the working-checkout fetch, before
\* checkout, before submodule materialization, before the global credential
\* cleanup; a later step starts only after the earlier one has finished.
C3_StepOrder ==
  \A j \in Jobs :
    /\ ~sawMirror[j].atCheck => Before(j, "mirrorClone", "mirrorFetch")
    /\ Before(j, "mirrorFetch", "getCheckoutInfo")
    /\ Before(j, "getCheckoutInfo", "resolveRef")
    /\ Before(j, "resolveRef", "fetch")
    /\ Before(j, "fetch", "checkout")
    /\ config[j].submodules => Before(j, "checkout", "submodules")
    /\ config[j].submodules => Before(j, "submodules", "cUnsetHeader")
    /\ Before(j, "checkout", "cUnsetHeader")
    /\ ~config[j].submodules => ~Attempted(j, "submodules")

C3_Witness ==
  \E j \in Jobs :
    /\ outcome[j] = "ok"
    /\ Done(j, "mirrorClone") /\ Done(j, "submodules") /\ Done(j, "cUnsetInsteadOf")

\* C4: when the mirror directory exists at the start of a run, that run
\* issues no 'git clone --mirror' and goes from the existence check straight
\* to the mirror fetch, for every one of the consecutive runs.
C4_NoCloneOnExistingMirror ==
  \A j \in Jobs :
    sawMirror[j].atStart =>
      /\ ~Attempted(j, "mirrorClone")
      /\ Done(j, "checkMirrorDir") => Attempted(j, "mirrorFetch")

C4_Witness ==
  \E j \in Jobs :
    /\ runs[j] >= 2 /\ sawMirror[j].atStart /\ mirrorDir = "cloned"
    /\ Done(j, "mirrorFetch") /\ outcome[j] = "ok"

\* C5: an existing mirror directory is never deleted, and a run that found
\* it existing never re-creates or re-clones it: such a run leaves the
\* directory as it is and never reaches the clone.
C5_MirrorKept ==
  [][ /\ mirrorDir # "absent" => mirrorDir' # "absent"
      /\ \A j \in Jobs :
           (sawMirror[j].atStart /\ pc[j] \notin {"idle", "returned"}) =>
             (mirrorDir' = mirrorDir /\ pc'[j] # "mirrorClone") ]_vars

C5_Witness ==
  \E j \in Jobs :
    /\ sawMirror[j].atStart /\ mirrorDir = "cloned"
    /\ outcome[j] = "failed" /\ lastCall[j].step = "mirrorFetch"

\* C6: when two jobs race to create the same mirror path, no job fetches
\* into, or resolves refs against, a mirror whose clone has not completed.
C6_NoUseOfIncompleteMirror ==
  \A j \in Jobs :
    (pc[j] \in {"mirrorFetch", "getCheckoutInfo", "resolveRef"}) => mirrorDir = "cloned"

\* C7: a call of execWithGitEnv whose command throws on its first k attempts
\* (k < maxAttempts) and then succeeds returns after exactly k+1 executions
\* and has emitted exactly k warnings, announcing 1, 2, ..., k delay units.
C7_RetryThenSuccess ==
  \A j \in Jobs :
    LET l == lastCall[j] IN
    (l.step \in ExecSteps /\ l.ok) =>
      /\ l.fails < l.maxAttempts
      /\ l.execs = l.fails + 1
      /\ Len(l.warnings) = l.fails
      /\ \A i \in 1..Len(l.warnings) : l.warnings[i] = i * DelayUnit

C7_Witness ==
  \E j \in Jobs :
    /\ lastCall[j].step \in ExecSteps /\ lastCall[j].ok
    /\ lastCall[j].maxAttempts = 3 /\ lastCall[j].fails = 2
    /\ lastCall[j].warnings = <<DelayUnit, 2 * DelayUnit>>

\* C8: a call of execWithGitEnv with maxAttempts = n >= 1 whose command throws
\* on every attempt executes it exactly n times, fails with the error of the
\* n-th attempt, emits exactly n-1 warnings and waits exactly n-1 delays.
C8_AllAttemptsFail ==
  \A j \in Jobs :
    LET l == lastCall[j] IN
    (l.step \in ExecSteps /\ ~l.ok /\ l.maxAttempts >= 1) =>
      /\ l.execs = l.maxAttempts
      /\ l.fails = l.maxAttempts
      /\ l.lastError = l.maxAttempts
      /\ Len(l.warnings) = l.maxAttempts - 1
      /\ Len(l.waited) = l.maxAttempts - 1
      /\ outcome[j] = "failed"

C8_Witness ==
  \E j \in Jobs :
    /\ lastCall[j].step \in ExecSteps /\ ~lastCall[j].ok
    /\ lastCall[j].maxAttempts = 3 /\ lastCall[j].execs = 3
    /\ Len(lastCall[j].waited) = 2

\* C9 as stated: every local operation is executed at most once per run and
\* its first failure, a throw or a non-zero exit, is fatal to the run.
C9_LocalFailureFatal ==
  \A j \in Jobs : \A s \in LocalSteps :
    /\ Times(j, s) <= 1
    /\ pc[j] = s => call[j].execs = 0
    /\ lastCall[j].step = s =>
         /\ lastCall[j].execs <= 1
         /\ lastCall[j].exit # "ok" => outcome[j] = "failed"

\* C9 amended: every local operation is executed at most once per run and
\* its first failure is fatal to the run, except that a non-zero exit of the
\* credential removals run with ignoreReturnCode is ignored.
C9_LocalNeverRetried ==
  \A j \in Jobs : \A s \in LocalSteps :
    /\ Times(j, s) <= 1
    /\ pc[j] = s => call[j].execs = 0
    /\ lastCall[j].step = s =>
         /\ lastCall[j].execs <= 1
         /\ (lastCall[j].exit # "ok" /\ ~(IgnoresReturnCode(s) /\ lastCall[j].exit = "nonzero"))
              => outcome[j] = "failed"

C9_Witness ==
  \E j \in Jobs :
    /\ config[j].maxAttempts = 3
    /\ lastCall[j].step = "checkout" /\ ~lastCall[j].ok /\ lastCall[j].execs = 1
    /\ outcome[j] = "failed"

\* C10: every network-sensitive operation is attempted at most max-attempts
\* times, and the run fails on it only after max-attempts failures in a row.
C10_NetworkAttemptBound ==
  \A j \in Jobs : \A s \in NetworkSteps :
    /\ pc[j] = s => call[j].execs < config[j].maxAttempts /\ call[j].fails = call[j].execs
    /\ lastCall[j].step = s =>
         /\ lastCall[j].execs <= config[j].maxAttempts
         /\ ~lastCall[j].ok =>
              (lastCall[j].fails = config[j].maxAttempts /\ lastCall[j].execs = config[j].maxAttempts)

C10_Witness ==
  \E j \in Jobs :
    /\ config[j].maxAttempts >= 2
    /\ lastCall[j].step = "fetch" /\ ~lastCall[j].ok
    /\ lastCall[j].fails = config[j].maxAttempts /\ outcome[j] = "failed"

\* C11: for a branch ref refs/heads/X given to getCheckoutInfo, with any
\* commit and depth, the plan has pointerRef = refs/remotes/origin/X,
\* startBranch = X and originalRef = refs/heads/X, and the checkout command
\* is invoked with '-B X' before the pointer ref.
C11_BranchPlan ==
  \A j \in Jobs :
    LET in == config[j].input
        p == plan[j]
        X == SubSeq(in.ref, 3, Len(in.ref))
    IN (p.planned /\ Len(in.ref) >= 3 /\ in.ref[1] = "refs" /\ in.ref[2] = "heads") =>
         /\ p.info.pointerRef = <<"refs", "remotes", "origin">> \o X
         /\ p.info.startBranch = X
         /\ p.info.originalRef = <<"refs", "heads">> \o X
         /\ (Attempted(j, "checkout") /\ pc[j] # "checkout") =>
              p.checkoutArgs = << <<"checkout">>, <<"--progress">>, <<"--force">>, <<"-B">>, X,
                                  <<"refs", "remotes", "origin">> \o X >>

C11_Witness ==
  \E j \in Jobs :
    /\ config[j].input.ref = <<"refs", "heads", "feature", "x">>
    /\ config[j].input.commit = <<"c1">>
    /\ Done(j, "checkout")
    /\ plan[j].checkoutArgs[4] = <<"-B">> /\ plan[j].checkoutArgs[5] = <<"feature", "x">>

\* C12 as stated: for a pull ref refs/pull/N/<suffix> given to
\* getCheckoutInfo, the plan has pointerRef = refs/remotes/pull/N and no
\* startBranch.
C12_PullPointerNumberOnly ==
  \A j \in Jobs :
    LET in == config[j].input
        p == plan[j]
    IN (p.planned /\ Len(in.ref) >= 4 /\ in.ref[1] = "refs" /\ in.ref[2] = "pull") =>
         /\ p.info.pointerRef = <<"refs", "remotes", "pull", in.ref[3]>>
         /\ p.info.startBranch = <<>>

\* C12 amended: for a pull ref refs/pull/N/<suffix> given to getCheckoutInfo,
\* the plan has pointerRef = refs/remotes/pull/N/<suffix>, the input with
\* 'refs/pull/' replaced by 'refs/remotes/pull/', and no startBranch.
C12_PullPointerKeepsSuffix ==
  \A j \in Jobs :
    LET in == config[j].input
        p == plan[j]
    IN (p.planned /\ Len(in.ref) >= 4 /\ in.ref[1] = "refs" /\ in.ref[2] = "pull") =>
         /\ p.info.pointerRef = <<"refs", "remotes", "pull">> \o SubSeq(in.ref, 3, Len(in.ref))
         /\ p.info.startBranch = <<>>

C12_Witness ==
  \E j \in Jobs :
    /\ config[j].input.ref = <<"refs", "pull", "7", "merge">>
    /\ plan[j].planned
    /\ plan[j].info.pointerRef = <<"refs", "remotes", "pull", "7", "merge">>
    /\ plan[j].info.startBranch = <<>>

\* C13: for a fully-qualified ref that is neither under refs/heads/ nor under
\* refs/pull/ (a tag, a note), the plan has pointerRef and originalRef equal
\* to the input ref and no startBranch, and the checkout command is invoked
\* without -B, with the ref itself as its target.
C13_OtherRefPlan ==
  \A j \in Jobs :
    LET in == config[j].input
        p == plan[j]
    IN (p.planned /\ Len(in.ref) >= 3 /\ in.ref[1] = "refs" /\ in.ref[2] \notin {"heads", "pull"}) =>
         /\ p.info.pointerRef = in.ref
         /\ p.info.originalRef = in.ref
         /\ p.info.startBranch = <<>>
         /\ (Attempted(j, "checkout") /\ pc[j] # "checkout") =>
              /\ p.checkoutArgs = << <<"checkout">>, <<"--progress">>, <<"--force">>, in.ref >>
              /\ \A i \in 1..Len(p.checkoutArgs) : p.checkoutArgs[i] # <<"-B">>

C13_Witness ==
  \E j \in Jobs :
    /\ config[j].input.ref = <<"refs", "tags", "v1">>
    /\ Done(j, "checkout")
    /\ plan[j].checkoutArgs[Len(plan[j].checkoutArgs)] = <<"refs", "tags", "v1">>
    /\ Len(plan[j].checkoutArgs) = 4

\* C14: for commit-only input (ref empty, commit non-empty) the plan has
\* pointerRef = commit and originalRef = commit and no startBranch, and
\* getCheckoutInfo has issued no query against the mirror, at any point of
\* the run.
C14_CommitOnlyPlan ==
  \A j \in Jobs :
    LET in == config[j].input
        p == plan[j]
    IN (in.ref = <<>> /\ in.commit # <<>>) =>
         /\ p.queries = <<>>
         /\ lastCall[j].cmd \notin {"symbolicRef", "revParse"}
         /\ p.planned =>
              /\ p.info.pointerRef = in.commit
              /\ p.info.originalRef = in.commit
              /\ p.info.startBranch = <<>>

C14_Witness ==
  \E j \in Jobs :
    /\ rawInput[j].ref = <<>> /\ rawInput[j].commit = <<"c1">>
    /\ config[j].input.ref = <<>> /\ config[j].input.commit = <<"c1">>
    /\ Done(j, "resolveRef") /\ plan[j].planned
    /\ plan[j].info.pointerRef = <<"c1">> /\ plan[j].queries = <<>>

\* C15 as stated: with ref and commit both empty, getCheckoutInfo issues no
\* query against the mirror, fails, and the run stops without fetching or
\* checking out.
C15_EmptyInputFailsFast ==
  \A j \in Jobs :
    LET in == config[j].input
        p == plan[j]
    IN (pc[j] # "idle" /\ in.ref = <<>> /\ in.commit = <<>>) =>
         /\ p.queries = <<>>
         /\ ~p.planned
         /\ ~Attempted(j, "fetch") /\ ~Attempted(j, "checkout")
         /\ Attempted(j, "getCheckoutInfo") /\ pc[j] # "getCheckoutInfo" => outcome[j] = "failed"

\* C15 amended: with ref and commit both empty, getCheckoutInfo asks the
\* mirror for its default branch with exactly one query, executed once
\* whatever max-attempts is; when the query fails the run fails without
\* planning, fetching or checking out, and when it succeeds the printed
\* branch is planned like a branch ref given as input.
C15_EmptyInputDefaultBranch ==
  \A j \in Jobs :
    LET in == config[j].input
        p == plan[j]
        l == lastCall[j]
    IN (pc[j] # "idle" /\ in.ref = <<>> /\ in.commit = <<>>) =>
         /\ (Attempted(j, "getCheckoutInfo") /\ pc[j] # "getCheckoutInfo") =>
              p.queries = <<"symbolicRef">>
         /\ l.cmd = "symbolicRef" => l.execs = 1 /\ l.warnings = <<>>
         /\ (l.cmd = "symbolicRef" /\ ~l.ok) =>
              /\ outcome[j] = "failed" /\ pc[j] = "returned"
              /\ ~p.planned
              /\ ~Attempted(j, "fetch") /\ ~Attempted(j, "checkout")
         /\ p.planned =>
              /\ p.ref \in DefaultBranchOutputs
              /\ p.info.originalRef = p.ref
              /\ p.info.pointerRef = <<"refs", "remotes", "origin">> \o SubSeq(p.ref, 3, Len(p.ref))
              /\ p.info.startBranch = SubSeq(p.ref, 3, Len(p.ref))

C15_Witness ==
  \E j \in Jobs :
    /\ config[j].input.ref = <<>> /\ config[j].input.commit = <<>>
    /\ config[j].maxAttempts = 3
    /\ plan[j].queries = <<"symbolicRef">>
    /\ plan[j].info.pointerRef = <<"refs", "remotes", "origin", "trunk">>
    /\ Done(j, "fetch") /\ Done(j, "checkout")

\* C16: every plan built by getCheckoutInfo has a non-empty pointerRef and a
\* non-empty originalRef and no empty fetch refspec, for every input and
\* every output of the mirror's name resolution, and no run reaches the
\* working-checkout fetch or the checkout with a plan whose pointerRef or
\* originalRef is empty.
C16_PlanNeverEmpty ==
  \A j \in Jobs :
    LET p == plan[j] IN
    /\ p.planned =>
         /\ p.info.pointerRef # <<>>
         /\ p.info.originalRef # <<>>
         /\ \A i \in 1..Len(p.info.fetchRefs) : p.info.fetchRefs[i].src # <<>>
    /\ (Attempted(j, "fetch") \/ Attempted(j, "checkout")) =>
         (p.info.pointerRef # <<>> /\ p.info.originalRef # <<>>)

\* C17: a plan made with depth > 0 has exactly one fetch refspec and no
\* wildcard refspec: '+<commit, or the ref when no commit is known>:<pointerRef>'
\* when a ref is present, the bare commit when only a commit is known; for
\* ref refs/heads/main its destination is refs/remotes/origin/main.
C17_ShallowSingleRefspec ==
  \A j \in Jobs :
    LET p == plan[j]
        f == p.info.fetchRefs
    IN (p.planned /\ config[j].input.fetchDepth > 0) =>
         /\ Len(f) = 1
         /\ \A i \in 1..Len(f) : \A w \in 1..Len(WildcardRefspecs) : f[i] # WildcardRefspecs[w]
         /\ p.ref # <<>> =>
              f[1] = [kind |-> "map", src |-> IF p.commit # <<>> THEN p.commit ELSE p.ref,
                      dst |-> p.info.pointerRef]
         /\ (p.ref = <<>> /\ p.commit # <<>>) =>
              f[1] = [kind |-> "bare", src |-> p.commit, dst |-> <<>>]
         /\ config[j].input.ref = <<"refs", "heads", "main">> =>
              (f[1].kind = "map" /\ f[1].dst = <<"refs", "remotes", "origin", "main">>)

C17_Witness ==
  \E j \in Jobs :
    /\ config[j].input.fetchDepth = 2
    /\ config[j].input.ref = <<"refs", "heads", "main">> /\ config[j].input.commit = <<>>
    /\ Done(j, "fetch")
    /\ plan[j].info.fetchRefs =
         << [kind |-> "map", src |-> <<"refs", "heads", "main">>,
             dst |-> <<"refs", "remotes", "origin", "main">>] >>

\* C18: a plan made with depth 0 for a commit without a ref has the bare
\* commit among its fetch refspecs, after the head and tag wildcards, so the
\* commit that will be checked out is one of the fetch targets.
C18_FullDepthCommitFetched ==
  \A j \in Jobs :
    LET in == config[j].input
        p == plan[j]
        f == p.info.fetchRefs
    IN (p.planned /\ in.fetchDepth = 0 /\ in.ref = <<>> /\ in.commit # <<>>) =>
         /\ Len(f) = 3
         /\ f[1] = WildcardRefspecs[1] /\ f[2] = WildcardRefspecs[2]
         /\ f[3] = [kind |-> "bare", src |-> in.commit, dst |-> <<>>]
         /\ \E i \in 1..Len(f) : f[i].kind = "bare" /\ f[i].src = p.info.pointerRef

C18_Witness ==
  \E j \in Jobs :
    /\ config[j].input.fetchDepth = 0
    /\ rawInput[j].ref = <<"sha40">>
    /\ config[j].input.ref = <<>> /\ config[j].input.commit = <<"sha40">>
    /\ Done(j, "fetch")
    /\ plan[j].info.fetchRefs[3] = [kind |-> "bare", src |-> <<"sha40">>, dst |-> <<>>]

\* C19: a plan made with depth 0 starts with the two wildcard refspecs for
\* all heads and all tags, and has the explicit target refspec
\* '+<commit-or-ref>:<pointerRef>' exactly when the resolved ref is present
\* and is neither under refs/heads/ nor under refs/tags/.
C19_FullDepthRefspecs ==
  \A j \in Jobs :
    LET p == plan[j]
        f == p.info.fetchRefs
        target == [kind |-> "map", src |-> IF p.commit # <<>> THEN p.commit ELSE p.ref,
                   dst |-> p.info.pointerRef]
        covered == Len(p.ref) >= 3 /\ p.ref[1] = "refs" /\ p.ref[2] \in {"heads", "tags"}
    IN (p.planned /\ config[j].input.fetchDepth = 0) =>
         /\ Len(f) >= 2
         /\ f[1] = [kind |-> "map", src |-> <<"refs", "heads", "*">>,
                    dst |-> <<"refs", "remotes", "origin", "*">>]
         /\ f[2] = [kind |-> "map", src |-> <<"refs", "tags", "*">>, dst |-> <<"refs", "tags", "*">>]
         /\ (\E i \in 1..Len(f) : f[i] = target) <=> (p.ref # <<>> /\ ~covered)

C19_Witness ==
  \E j \in Jobs :
    /\ config[j].input.fetchDepth = 0
    /\ config[j].input.ref = <<"refs", "pull", "7", "merge">> /\ config[j].input.commit = <<"c1">>
    /\ Done(j, "fetch")
    /\ Len(plan[j].info.fetchRefs) = 3
    /\ plan[j].info.fetchRefs[3] =
         [kind |-> "map", src |-> <<"c1">>, dst |-> <<"refs", "remotes", "pull", "7", "merge">>]

\* C20: a ref input of exactly 40 hexadecimal characters with an empty
\* commit input is turned by parseInputConfig into ref = '' and commit = that
\* string, and the run then plans it as a commit without querying the mirror;
\* a non-empty ref input that is not exactly 40 hexadecimal characters keeps
\* its ref and its commit.
C20_ShaReclassified ==
  \A j \in Jobs :
    LET raw == rawInput[j]
        in == config[j].input
        p == plan[j]
    IN pc[j] # "idle" =>
         /\ (raw.ref \in {<<"sha40">>, <<"c1">>} /\ raw.commit = <<>>) =>
              /\ in.ref = <<>> /\ in.commit = raw.ref
              /\ p.queries = <<>>
              /\ p.planned => (p.ref = <<>> /\ p.info.pointerRef = raw.ref)
         /\ (raw.ref # <<>> /\ raw.ref \notin {<<"sha40">>, <<"c1">>}) =>
              (in.ref = raw.ref /\ in.commit = raw.commit)

C20_Witness ==
  \E j \in Jobs :
    /\ rawInput[j].ref = <<"sha40">> /\ rawInput[j].commit = <<>>
    /\ config[j].input.ref = <<>> /\ config[j].input.commit = <<"sha40">>
    /\ plan[j].planned /\ plan[j].info.originalRef = <<"sha40">>
    /\ Done(j, "checkout")

\* C21: when a run has completed successfully, the local configuration of
\* the checkout directory holds the credential header if and only if
\* persist-credentials is true; the global cleanup that ends the run has run
\* and has left the local header in place.
C21_LocalHeaderIffPersist ==
  \A j \in Jobs :
    (pc[j] = "returned" /\ outcome[j] = "ok") =>
      /\ localCfg[j].header >= 1 <=> config[j].persistCredentials
      /\ config[j].persistCredentials =>
           (Done(j, "lAddHeader") /\ Before(j, "lAddHeader", "cUnsetHeader") /\ Done(j, "cUnsetInsteadOf"))

C21_Witness ==
  \E j \in Jobs :
    /\ pc[j] = "returned" /\ outcome[j] = "ok"
    /\ config[j].persistCredentials
    /\ Done(j, "cUnsetHeader") /\ lastCall[j].step = "cUnsetInsteadOf"
    /\ localCfg[j].header = 1 /\ globalCfg[j].header = 0

\* C22: credential install is idempotent: whenever configGitAuth has added
\* the header at a scope (global, or local to the checkout directory), that
\* scope holds exactly one header entry, however many installs came before.
C22_InstallIdempotent ==
  \A j \in Jobs :
    /\ (lastCall[j].step = "gAddHeader" /\ lastCall[j].ok) => globalCfg[j].header = 1
    /\ (lastCall[j].step = "lAddHeader" /\ lastCall[j].ok) => localCfg[j].header = 1
    /\ globalCfg[j].header <= 1 /\ localCfg[j].header <= 1

\* C23: when the mirror variable or the workspace variable is unset or names
\* a path that does not exist, the run fails at once with one reported
\* error: it invokes no external command, installs no credential at any
\* scope, retries and warns about nothing, and leaves the mirror and the
\* working repository as they were.
C23_EnvFailureIsImmediate ==
  [][ \A j \in Jobs :
        (pc[j] = "checkEnv" /\ config[j].env # "ok" /\ pc'[j] # pc[j]) =>
          /\ pc'[j] = "returned" /\ outcome'[j] = "failed" /\ setFailed'[j] = 1
          /\ lastCall'[j] = NoCall /\ call'[j] = FreshCall /\ stepLog'[j] = <<>>
          /\ warned'[j] = 0
          /\ globalCfg' = globalCfg /\ localCfg' = localCfg /\ subCfg' = subCfg
          /\ repo' = repo /\ mirrorRoot' = mirrorRoot /\ mirrorDir' = mirrorDir
          /\ mirrorRefs' = mirrorRefs ]_vars

C23_Witness ==
  \E j \in Jobs :
    /\ config[j].env = "missingWorkspace"
    /\ pc[j] = "returned" /\ outcome[j] = "failed" /\ setFailed[j] = 1
    /\ stepLog[j] = <<>> /\ lastCall[j] = NoCall

\* C24: a failure while preparing the cache version root (creating it,
\* setting its mode, repairing its writability, losing the creation to
\* another job) is logged as one warning and never fails the run: from this
\* step every run goes on, still running and with no failure reported, to
\* the mirror directory check that starts the mirror clone and fetch.
C24_PrepareRootNeverFatal ==
  [][ \A j \in Jobs :
        (pc[j] = "prepareMirrorRoot" /\ pc'[j] # pc[j]) =>
          /\ pc'[j] = "checkMirrorDir"
          /\ outcome'[j] = "running" /\ setFailed'[j] = 0
          /\ warned'[j] \in {warned[j], warned[j] + 1}
          /\ mirrorRoot' # "writable" => warned'[j] = warned[j] + 1 ]_vars

C24_Witness ==
  \E j \in Jobs :
    /\ warned[j] = 1
    /\ Done(j, "prepareMirrorRoot") /\ Done(j, "mirrorClone") /\ Done(j, "mirrorFetch")
    /\ outcome[j] = "ok"

\* C25: in every run that has got past the working-checkout fetch and its
\* LFS fetch to the checkout, exactly one of two things has happened: with
\* dissociate the working repository was repacked, by one execution and no
\* retry, and no alternates file was written; without it no repack ran and
\* the alternates file pointing at the mirror's objects was written.
C25_RepackOrAlternates ==
  \A j \in Jobs :
    /\ Attempted(j, "checkout") =>
         IF config[j].dissociateMainRepo
         THEN /\ Times(j, "repack") = 1 /\ repo[j].repacked
              /\ ~Attempted(j, "writeAlternates") /\ ~repo[j].alternates
         ELSE /\ Times(j, "writeAlternates") = 1 /\ repo[j].alternates
              /\ ~Attempted(j, "repack") /\ ~repo[j].repacked
    /\ pc[j] = "repack" => call[j].execs = 0
    /\ lastCall[j].step = "repack" => (lastCall[j].execs = 1 /\ lastCall[j].warnings = <<>>)
    /\ (Attempted(j, "repack") \/ Attempted(j, "writeAlternates")) => Done(j, "fetch")

C25_Witness ==
  \E j \in Jobs :
    /\ config[j].dissociateMainRepo /\ config[j].maxAttempts = 3
    /\ Done(j, "repack") /\ Done(j, "checkout")
    /\ repo[j].repacked /\ ~repo[j].alternates

\* C26: a run that has returned either finished every step that applies to
\* its request and reported no failure, or reported exactly one failure
\* (one core.setFailed) and stopped short of its last step; no run returns
\* after an aborted step without a report, and a run in progress has
\* reported nothing.
C26_SingleFailureReport ==
  \A j \in Jobs :
    /\ setFailed[j] <= 1
    /\ outcome[j] # "silent"
    /\ pc[j] \notin {"idle", "returned"} => (setFailed[j] = 0 /\ outcome[j] = "running")
    /\ pc[j] = "returned" =>
         \/ /\ outcome[j] = "ok" /\ setFailed[j] = 0
            /\ \A s \in Steps : Applies(s, config[j]) => Times(j, s) = 1
            /\ stepLog[j][Len(stepLog[j])] = "cUnsetInsteadOf"
         \/ /\ outcome[j] = "failed" /\ setFailed[j] = 1
            /\ ~Done(j, "cUnsetInsteadOf")

C26_Witness ==
  \E j \in Jobs :
    /\ pc[j] = "returned" /\ outcome[j] = "failed" /\ setFailed[j] = 1
    /\ lastCall[j].step = "submodules" /\ ~lastCall[j].ok
    /\ Done(j, "checkout")

\* C27: the credential that a run persisted in the local configuration of
\* the checkout directory is removed again by the action after the job's
\* steps: whenever the local header is present, it is eventually absent.
C27_LocalHeaderEventuallyRemoved ==
  \A j \in SeqJobs : (localCfg[j].header >= 1) ~> (localCfg[j].header = 0)

\* C28: with no ref input, a request for the repository that triggered the
\* workflow takes the event's commit and the event's ref (qualified under
\* refs/heads/ when the event gives a short name); a request for another
\* repository with no commit either makes getCheckoutInfo ask the mirror for
\* its default branch and plan that branch (pointerRef
\* refs/remotes/origin/<default>, startBranch <default>); the default-branch
\* query is issued only when ref and commit are both empty.
C28_DefaultsWithoutRef ==
  \A j \in Jobs :
    LET raw == rawInput[j]
        in == config[j].input
        p == plan[j]
    IN pc[j] # "idle" =>
         /\ (raw.ref = <<>> /\ raw.isWorkflowRepository) =>
              /\ in.commit = raw.ctxSha
              /\ in.ref = (IF raw.ctxRef[1] = "refs" THEN raw.ctxRef
                           ELSE <<"refs", "heads">> \o raw.ctxRef)
              /\ p.queries = <<>>
         /\ (raw.ref = <<>> /\ ~raw.isWorkflowRepository /\ raw.commit = <<>>) =>
              /\ in.ref = <<>> /\ in.commit = <<>>
              /\ Done(j, "getCheckoutInfo") => p.queries = <<"symbolicRef">>
              /\ p.planned =>
                   \E d \in {<<"main">>, <<"trunk">>} :
                     /\ p.ref = <<"refs", "heads">> \o d
                     /\ p.info.pointerRef = <<"refs", "remotes", "origin">> \o d
                     /\ p.info.startBranch = d
         /\ (\E i \in 1..Len(p.queries) : p.queries[i] = "symbolicRef") =>
              (in.ref = <<>> /\ in.commit = <<>>)
         /\ lastCall[j].cmd = "symbolicRef" => (in.ref = <<>> /\ in.commit = <<>>)

C28_Witness ==
  \E j \in Jobs :
    /\ rawInput[j].ref = <<>> /\ ~rawInput[j].isWorkflowRepository /\ rawInput[j].commit = <<>>
    /\ Done(j, "checkout")
    /\ plan[j].queries = <<"symbolicRef">>
    /\ plan[j].info.startBranch = <<"trunk">>
    /\ Len(plan[j].checkoutArgs) = 6 /\ plan[j].checkoutArgs[5] = <<"trunk">>

\* C29: in a run with a mirror refspec override, the mirror fetch is given
\* exactly the listed refspecs in their order, no step of the run brings a
\* ref into the mirror that the listed refspecs do not name, and the plan of
\* the working-checkout fetch is the one the request gives without the override.
C29_OverrideWinsVerbatim ==
  [][ \A j \in SeqJobs :
        config[j].mirrorRefspec # <<>> =>
          /\ (pc[j] = "mirrorFetch" /\ <<pc, call>>' # <<pc, call>>) =>
               sawMirror'[j].fetchArgs.refspecs = config[j].mirrorRefspec
          /\ (mirrorRefs' \ mirrorRefs) \subseteq Fetched(config[j].mirrorRefspec, remoteRefs)
          /\ plan'[j].planned =>
               plan'[j].info = CheckoutInfo(plan'[j].ref, plan'[j].commit, config[j].input.fetchDepth)
    ]_vars

HasFlag(args, flag) == \E i \in 1..Len(args.flags) : args.flags[i] = flag

IsTag(ref) == Len(ref) >= 3 /\ ref[1] = "refs" /\ ref[2] = "tags"

C31_AllThroughExecutor ==
  \A j \in Jobs : lastCall[j].cmd # "none" => lastCall[j].via = "execWithGitEnv"

\* C31: every external command a run starts is started by execWithGitEnv with
\* an explicit attempt bound (1 or the request's max-attempts), except four:
\* the default-branch lookup, the unqualified-ref resolution and the
\* sparse-checkout path lookup go through getExecOutputWithGitEnv, and the
\* permission repair of the mirror root calls exec.exec; each of the four is
\* executed exactly once, without retry, warning or delay.
C31_ExecutorExceptLookupsAndRepair ==
  \A j \in Jobs :
    LET l == lastCall[j] IN
    l.cmd # "none" =>
      /\ l.cmd \in {"symbolicRef", "revParse", "sparsePath"} =>
           /\ l.via = "getExecOutput"
           /\ l.step \in {"getCheckoutInfo", "resolveRef", "sparsePath"}
      /\ l.cmd = "sudoChmod" => (l.via = "exec" /\ l.step = "prepareMirrorRoot")
      /\ l.via # "execWithGitEnv" =>
           /\ l.cmd \in {"symbolicRef", "revParse", "sparsePath", "sudoChmod"}
           /\ l.execs = 1 /\ l.warnings = <<>> /\ l.waited = <<>>
      /\ l.via = "execWithGitEnv" =>
           /\ l.step \in ExecSteps /\ l.cmd = l.step
           /\ l.maxAttempts \in {1, config[j].maxAttempts}

C31_Witness ==
  \E j \in Jobs :
    /\ Done(j, "sparsePath")
    /\ lastCall[j].cmd = "sparsePath" /\ lastCall[j].via = "getExecOutput"
    /\ plan[j].queries # <<>>
    /\ warned[j] = 1

\* C32: whatever the text of the max-attempts input (empty, zero, negative,
\* not a number, positive), the parsed maxAttempts is a number >= 1: 3 for
\* an empty, zero or non-numeric text, 1 for a negative one, the number itself
\* when positive. Every call of execWithGitEnv therefore runs its command at
\* least once, and a call that fails carries the error of an attempt it made.
C32_AttemptBoundAtLeastOne ==
  \A j \in SeqJobs :
    LET text == rawInput[j].maxAttempts
        l == lastCall[j]
    IN pc[j] # "idle" =>
         /\ config[j].maxAttempts # NaN /\ config[j].maxAttempts >= 1
         /\ text \in {EmptyText, WordText, NumText(0)} => config[j].maxAttempts = 3
         /\ (text.kind = "num" /\ text.val < 0) => config[j].maxAttempts = 1
         /\ (text.kind = "num" /\ text.val > 0) => config[j].maxAttempts = text.val
         /\ l.via = "execWithGitEnv" =>
              /\ l.maxAttempts >= 1 /\ l.execs >= 1
              /\ ~l.ok => (l.lastError >= 1 /\ l.fails = l.execs)
         /\ (pc[j] = "returned" /\ outcome[j] = "failed" /\ l.via = "execWithGitEnv") =>
              setFailed[j] = 1

C32_Witness ==
  \E j \in SeqJobs :
    /\ rawInput[j].maxAttempts = NumText(0 - 2)
    /\ config[j].maxAttempts = 1
    /\ lastCall[j].step = "mirrorFetch" /\ lastCall[j].via = "execWithGitEnv"
    /\ ~lastCall[j].ok /\ lastCall[j].execs = 1
    /\ outcome[j] = "failed"

\* C33: two jobs whose (owner, repo) pairs differ and whose users are the
\* same get different mirror directories, and so do two jobs whose uids
\* differ and are both set and not the default runner uid.
C33_MirrorSubdirInjective ==
  \A j, k \in Jobs :
    (sawMirror[j].dir # <<>> /\ sawMirror[k].dir # <<>>) =>
      /\ (config[j].uid = config[k].uid
          /\ <<config[j].owner, config[j].repo>> # <<config[k].owner, config[k].repo>>) =>
           sawMirror[j].dir # sawMirror[k].dir
      /\ (config[j].uid # config[k].uid
          /\ {config[j].uid, config[k].uid} \cap {"undefined", DefaultRunnerUid} = {}) =>
           sawMirror[j].dir # sawMirror[k].dir

\* C34: a run that comes to the existence test of the mirror directory while
\* the directory holds no completed clone, because the clone of an earlier
\* run failed on all its attempts, goes on to the clone (or fails creating
\* the directory) and never skips to the fetch.
C34_FailedCloneIsRetriedLater ==
  [][ \A j \in Jobs :
        (pc[j] = "checkMirrorDir" /\ pc'[j] # pc[j] /\ mirrorDir # "cloned") =>
          pc'[j] \in {"mirrorClone", "returned"}
    ]_vars

\* C35: whatever the parsed fetch depth (positive, zero, negative, NaN), the
\* working-checkout fetch carries --depth N --no-tags exactly when its
\* refspecs are the single-target plan, and carries no depth flag exactly
\* when they start with the two wildcard refspecs.
C35_DepthFlagsMatchPlan ==
  \A j \in SeqJobs :
    LET a == plan[j].fetchArgs IN
    a.refspecs # <<>> =>
      /\ a.depthFlags = <<"--depth", "--no-tags">> <=> Len(a.refspecs) = 1
      /\ a.depthFlags = <<>> <=>
           (Len(a.refspecs) >= 2 /\ SubSeq(a.refspecs, 1, 2) = WildcardRefspecs)

\* C36: however many times the credentials are installed, the global and
\* the local configuration each hold at most one url.https://github.com/.insteadOf
\* entry and the submodules hold at most one credential header.
C36_NoDuplicateEntries ==
  \A j \in Jobs :
    /\ globalCfg[j].insteadOf <= 1
    /\ localCfg[j].insteadOf <= 1
    /\ subCfg[j].header <= 1

\* C37: a plan made for a ref together with a commit has, at every depth and
\* for every kind of ref, a fetch refspec that writes that commit to the
\* pointerRef the checkout uses.
C37_PointerRefBoundToCommit ==
  \A j \in SeqJobs :
    LET p == plan[j] IN
    (p.planned /\ p.ref # <<>> /\ p.commit # <<>>) =>
      \E i \in 1..Len(p.info.fetchRefs) :
        p.info.fetchRefs[i] = [kind |-> "map", src |-> p.commit, dst |-> p.info.pointerRef]

\* C38 as stated: a command that ended with a failure, other than the repair
\* of the cache root, has ended the run: the run has returned as failed and
\* goes no further.
C38_FailFast ==
  \A j \in Jobs :
    LET l == lastCall[j] IN
    (l.cmd # "none" /\ l.exit # "ok" /\ l.step # "prepareMirrorRoot") =>
      (pc[j] = "returned" /\ outcome[j] = "failed")

\* C38: a step that throws (a command that cannot be started, or a non-zero
\* exit after the last attempt) ends the run at once: the run returns as
\* failed, the steps it has finished all precede the failed one, and nothing
\* more is executed in that run. A run goes on after a failed command in two
\* cases only: the preparation of the cache root, and a non-zero exit of one
\* of the four 'git config --unset-all' commands.
C38_FailFastExceptIgnoredExit ==
  [][ \A j \in Jobs :
        /\ (pc[j] \in Steps /\ pc'[j] = "returned" /\ outcome'[j] = "failed") =>
             /\ stepLog'[j] = stepLog[j]
             /\ \A i \in 1..Len(stepLog[j]) : IndexOf(stepLog[j][i]) < IndexOf(pc[j])
        /\ (pc[j] = "returned" /\ outcome[j] = "failed") =>
             (stepLog'[j] = stepLog[j] \/ runs'[j] = runs[j] + 1)
        /\ (pc[j] \in Steps /\ pc'[j] # pc[j] /\ lastCall'[j] # lastCall[j]
            /\ lastCall'[j].exit # "ok" /\ outcome'[j] # "failed") =>
             \/ pc[j] = "prepareMirrorRoot"
             \/ /\ pc[j] \in {"gUnsetHeader", "lUnsetHeader", "cUnsetHeader", "cUnsetInsteadOf"}
                /\ lastCall'[j].exit = "nonzero"
    ]_vars

C38_Witness ==
  \E j \in Jobs :
    /\ pc[j] = "returned" /\ outcome[j] = "failed"
    /\ lastCall[j].step = "fetch" /\ ~lastCall[j].ok /\ lastCall[j].execs = 3
    /\ Done(j, "remoteAdd")
    /\ \A s \in {"fetch", "checkout", "submodules", "lAddHeader", "cUnsetHeader"} : ~Done(j, s)
    /\ config[j].submodules /\ config[j].persistCredentials

\* C39: in a run whose persist-credentials input is not 'true' (in any
\* letter case), nothing is written to the local configuration of the
\* checkout directory or of a submodule, and the run never comes to a step
\* of the local install, whether it succeeds or fails; the header the run
\* writes is in the global configuration only.
C39_NoLocalCredentialUnlessPersisted ==
  [][ \A j \in SeqJobs :
        rawInput'[j].persistCredentials \notin {"true", "True", "TRUE"} =>
          /\ ~config'[j].persistCredentials
          /\ localCfg'[j] = localCfg[j] /\ subCfg'[j] = subCfg[j]
          /\ pc'[j] \notin {"lUnsetHeader", "lAddHeader", "lAddInsteadOf",
                            "subAddHeader", "subAddInsteadOf"}
    ]_vars

C39_Witness ==
  \E j \in SeqJobs :
    /\ rawInput[j].persistCredentials = "yes"
    /\ config[j].submodules
    /\ pc[j] = "returned" /\ outcome[j] = "ok"
    /\ Done(j, "gAddHeader") /\ Done(j, "submodules") /\ Done(j, "cUnsetHeader")
    /\ localCfg[j].header = 0 /\ subCfg[j].header = 0

\* C40: every run terminates: with every command invocation returning, a
\* run that has started reaches its end (completed or failed).
C40_EveryRunTerminates ==
  \A j \in SeqJobs : (outcome[j] = "running") ~> (pc[j] = "returned")

====
